---- MODULE Spec2Model ----
(***************************************************************************)
(* Model of the sandboxed Git operation facade of git-mcp-server:          *)
(* PathValidation (utils/validation.ts), GlobalSettings                    *)
(* (utils/global-settings.ts), the error service (services/error-service)  *)
(* the GitService facade (services/git-service) and the tool adapters      *)
(* that call it (tools/*.ts).                                              *)
(*                                                                         *)
(* Paths are sequences of one-character strings so that String.startsWith  *)
(* and path.normalize can be computed character by character and segment   *)
(* by segment, exactly as Node's posix path module does.                   *)
(***************************************************************************)
EXTENDS Integers, Sequences, FiniteSets, TLC

VARIABLES
    allowedBaseDir,     \* GlobalSettings._allowedBaseDir (SandboxRoot)
    globalWorkingDir,   \* GlobalSettings._globalWorkingDir
    reqs,               \* the requests in flight, one record per handler slot
    pathCheck,          \* inputs and result of one PathValidation.isWithinDirectory call
    fs,                 \* the entries that exist on disk
    probe,              \* inputs and result of one GitService.isGitRepository call
    listing,            \* inputs and result of one GitService.listFilesAtRef call
    server              \* the process: its environment, its phase, the settings singleton

vars == <<allowedBaseDir, globalWorkingDir, reqs, pathCheck, fs, probe, listing, server>>

-----------------------------------------------------------------------------
(* Bounds *)

\* longest generated path, in segments, fed to the pure path functions
MaxSegs == 3

\* longest file list handed to stageFiles / unstageFiles
MaxFiles == 2

-----------------------------------------------------------------------------
(* Strings as character sequences *)

SLASH == <<"/">>
DOT == <<".">>
DOTDOT == <<".", ".">>
EMPTY == <<>>

\* String.prototype.startsWith
StartsWith(s, prefix) ==
    /\ Len(prefix) <= Len(s)
    /\ SubSeq(s, 1, Len(prefix)) = prefix

\* s.split("/")
RECURSIVE SplitFrom(_, _, _)
SplitFrom(s, i, cur) ==
    IF i > Len(s) THEN <<cur>>
    ELSE IF s[i] = "/" THEN <<cur>> \o SplitFrom(s, i + 1, EMPTY)
    ELSE SplitFrom(s, i + 1, Append(cur, s[i]))

Split(s) == SplitFrom(s, 1, EMPTY)

\* segs.join("/")
RECURSIVE JoinFrom(_, _)
JoinFrom(segs, i) ==
    IF i > Len(segs) THEN EMPTY
    ELSE IF i = Len(segs) THEN segs[i]
    ELSE segs[i] \o SLASH \o JoinFrom(segs, i + 1)

Join(segs) == JoinFrom(segs, 1)

\* the prefixes of p that end where a segment ends, p included
PathPrefixes(p) ==
    {SubSeq(p, 1, i) : i \in {j \in 1..Len(p) : j = Len(p) \/ p[j + 1] = "/"}}

NEWLINE == <<"\n">>

\* s.split("\n")
RECURSIVE SplitLinesFrom(_, _, _)
SplitLinesFrom(s, i, cur) ==
    IF i > Len(s) THEN <<cur>>
    ELSE IF s[i] = "\n" THEN <<cur>> \o SplitLinesFrom(s, i + 1, EMPTY)
    ELSE SplitLinesFrom(s, i + 1, Append(cur, s[i]))

\* line.trim()
RECURSIVE Trim(_)
Trim(line) ==
    IF Len(line) = 0 THEN line
    ELSE IF line[1] \in {" ", "\t", "\n"} THEN Trim(Tail(line))
    ELSE IF line[Len(line)] \in {" ", "\t", "\n"} THEN Trim(SubSeq(line, 1, Len(line) - 1))
    ELSE line

-----------------------------------------------------------------------------
(* Node's posix path module *)

\* process.cwd(): the directory the server was started in
Cwd == <<"/", "w">>

\* normalizeString of lib/path.js: drops "" and "." segments, lets ".." pop
\* the previous segment, keeps a leading ".." only when allowAboveRoot
RECURSIVE NormalizeSegs(_, _, _, _)
NormalizeSegs(segs, i, res, allowAboveRoot) ==
    IF i > Len(segs) THEN res
    ELSE LET g == segs[i] IN
         IF g = EMPTY \/ g = DOT
         THEN NormalizeSegs(segs, i + 1, res, allowAboveRoot)
         ELSE IF g = DOTDOT
         THEN IF Len(res) > 0 /\ res[Len(res)] # DOTDOT
              THEN NormalizeSegs(segs, i + 1, SubSeq(res, 1, Len(res) - 1), allowAboveRoot)
              ELSE IF allowAboveRoot
                   THEN NormalizeSegs(segs, i + 1, Append(res, DOTDOT), allowAboveRoot)
                   ELSE NormalizeSegs(segs, i + 1, res, allowAboveRoot)
         ELSE NormalizeSegs(segs, i + 1, Append(res, g), allowAboveRoot)

NormalizeString(p, allowAboveRoot) ==
    Join(NormalizeSegs(Split(p), 1, <<>>, allowAboveRoot))

IsAbsolute(p) == Len(p) > 0 /\ p[1] = "/"

\* path.normalize
PathNormalize(p) ==
    IF Len(p) = 0 THEN DOT
    ELSE LET isAbs == IsAbsolute(p)
             trailing == p[Len(p)] = "/"
             body == NormalizeString(p, ~isAbs)
         IN  IF Len(body) = 0
             THEN IF isAbs THEN SLASH
                  ELSE IF trailing THEN DOT \o SLASH ELSE DOT
             ELSE (IF isAbs THEN SLASH ELSE EMPTY) \o body
                  \o (IF trailing THEN SLASH ELSE EMPTY)

\* path.resolve(from, to): right to left until an absolute prefix is found,
\* falling back on the working directory; empty arguments are skipped
PathResolve(from, to) ==
    LET withTo == IF Len(to) = 0 THEN EMPTY ELSE to \o SLASH
        withFrom == IF IsAbsolute(to) \/ Len(from) = 0 THEN withTo
                    ELSE from \o SLASH \o withTo
        full == IF IsAbsolute(withFrom) THEN withFrom
                ELSE Cwd \o SLASH \o withFrom
    IN  SLASH \o NormalizeString(full, FALSE)

\* path.join(a, b)
PathJoin(a, b) ==
    LET joined == IF Len(a) = 0 THEN b
                  ELSE IF Len(b) = 0 THEN a
                  ELSE a \o SLASH \o b
    IN  PathNormalize(joined)

-----------------------------------------------------------------------------
(* utils/global-settings.ts *)

\* the registry slot: null, or a directory
GwdNull == [isNull |-> TRUE, dir |-> EMPTY]
GwdOf(d) == [isNull |-> FALSE, dir |-> d]

\* a registry that keeps a directory once one is stored
setGlobalWorkingDir_keepsFirst(p) ==
    globalWorkingDir' = IF globalWorkingDir.isNull \/ p.isNull THEN p ELSE globalWorkingDir

\* GlobalSettings.setGlobalWorkingDir
setGlobalWorkingDir(p) == globalWorkingDir' = p

-----------------------------------------------------------------------------
(* utils/validation.ts *)

\* normalizePath without the registry lookup
normalizePath_ignoresRegistry(inputPath, gwd) ==
    PathNormalize(inputPath)

\* PathValidation.normalizePath: "." is replaced by the registry value when
\* one is set (a null or empty string is falsy)
normalizePath(inputPath, gwd) ==
    IF inputPath = DOT /\ ~gwd.isNull /\ Len(gwd.dir) > 0
    THEN PathNormalize(gwd.dir)
    ELSE PathNormalize(inputPath)

\* PathValidation.isWithinDirectory: a raw string-prefix test
isWithinDirectory(targetPath, basePath) ==
    LET normalizedTarget == PathNormalize(targetPath)
        normalizedBase == PathNormalize(basePath)
    IN  /\ StartsWith(normalizedTarget, normalizedBase)
        /\ Len(normalizedTarget) >= Len(normalizedBase)

-----------------------------------------------------------------------------
(* services/error-service *)

\* JavaScript truthiness of an optional string: undefined and "" are falsy
Falsy(v) == v \in {"", "undefined"}

\* a field that holds no record
NoRec == [absent |-> TRUE]

CATEGORY_VALIDATION == "VALIDATION"
CATEGORY_GIT == "GIT"
CATEGORY_MCP == "MCP"
CATEGORY_SYSTEM == "SYSTEM"
CATEGORY_UNKNOWN == "UNKNOWN"

SEVERITY_ERROR == 3

\* createSuccessResult
createSuccessResult(data) ==
    [resultSuccessful |-> TRUE, resultData |-> data]

\* createFailureResult that also fills the data branch
createFailureResult_bothBranches(error) ==
    [resultSuccessful |-> FALSE, resultData |-> "output", resultError |-> error]

\* createFailureResult
createFailureResult(error) ==
    [resultSuccessful |-> FALSE, resultError |-> error]

\* createStandardizedError (errorTimestamp, the wall clock, is left out)
createStandardizedError(message, code, category, severity, context) ==
    [errorMessage |-> message,
     errorCode |-> code,
     errorCategory |-> category,
     errorSeverity |-> severity,
     errorContext |-> context,
     errorStack |-> "undefined"]

\* wrapExceptionAsStandardizedError
wrapExceptionAsStandardizedError(exception, defaultMessage) ==
    [errorMessage |-> IF exception.isError THEN exception.message ELSE defaultMessage,
     errorCode |-> "UNEXPECTED_ERROR",
     errorCategory |-> CATEGORY_UNKNOWN,
     errorSeverity |-> SEVERITY_ERROR,
     errorContext |-> [originalException |-> exception],
     errorStack |-> IF exception.isError THEN exception.stack ELSE "undefined"]

\* createGitError that files its records under the validation category
createGitError_asValidation(message, code, context) ==
    createStandardizedError(message, code, CATEGORY_VALIDATION, SEVERITY_ERROR, context)

\* createGitError
createGitError(message, code, context) ==
    createStandardizedError(message, code, CATEGORY_GIT, SEVERITY_ERROR, context)

\* the test the path-bearing operations use to recognise their own errors:
\* (error as StandardizedApplicationErrorObject)?.errorCode
IsStandardized(error) ==
    /\ "errorCode" \in DOMAIN error
    /\ ~Falsy(error.errorCode)

-----------------------------------------------------------------------------
(* The underlying command layer (simple-git, fs): what a command can raise *)

\* a structured tool failure: carries a code and the command metadata
GitFailure ==
    [isError |-> TRUE, code |-> "GIT_128", message |-> "fatal: bad revision",
     stack |-> "stack-git", command |-> "git", args |-> "argv", stderr |-> "fatal"]

\* a structured failure whose message is empty
GitFailureNoMessage ==
    [isError |-> TRUE, code |-> "GIT_1", message |-> "",
     stack |-> "stack-git", command |-> "git", args |-> "argv", stderr |-> "conflict"]

\* an Error without code
PlainError ==
    [isError |-> TRUE, code |-> "undefined", message |-> "spawn git ENOENT",
     stack |-> "stack-plain", command |-> "undefined", args |-> "undefined",
     stderr |-> "undefined"]

\* a thrown value that is not an Error
ThrownValue ==
    [isError |-> FALSE, code |-> "undefined", message |-> "undefined",
     stack |-> "undefined", command |-> "undefined", args |-> "undefined",
     stderr |-> "undefined"]

CommandErrors == {GitFailure, GitFailureNoMessage, PlainError, ThrownValue}

\* what fs.mkdir and fs.writeFile raise: a system error, which carries the
\* errno name as code and no command metadata
FsFailure ==
    [isError |-> TRUE, code |-> "EACCES", message |-> "EACCES: permission denied",
     stack |-> "stack-fs", command |-> "undefined", args |-> "undefined",
     stderr |-> "undefined"]

FsErrors == {FsFailure}

NoError ==
    [isError |-> FALSE, code |-> "undefined", message |-> "none",
     stack |-> "undefined", command |-> "undefined", args |-> "undefined",
     stderr |-> "undefined"]

-----------------------------------------------------------------------------
(* services/git-service: construction, validation, classification *)

\* GitService.constructor: the sandbox check and the binding of repoPath
\* (the reads of the global git user configuration that follow a passed
\* check only choose how simple-git is instantiated and are left out)
GitServiceConstructor(repoPath, gwd, baseDir) ==
    LET normalizedRepoPath == normalizePath(repoPath, gwd) IN
    IF ~isWithinDirectory(normalizedRepoPath, baseDir)
    THEN [ok |-> FALSE,
          repoPath |-> EMPTY,
          error |-> createStandardizedError(
                      "Access denied: outside the allowed base directory",
                      "PATH_OUTSIDE_BASEDIR",
                      CATEGORY_VALIDATION,
                      SEVERITY_ERROR,
                      [requestedPath |-> repoPath,
                       resolvedPath |-> normalizedRepoPath,
                       allowedBaseDir |-> baseDir])]
    ELSE [ok |-> TRUE, repoPath |-> normalizedRepoPath, error |-> NoRec]

\* GitService.validateRelativePath
validateRelativePath(repoPath, relativePath, paramName) ==
    IF relativePath = DOT \/ relativePath = EMPTY
    THEN [ok |-> TRUE, value |-> relativePath, error |-> NoRec]
    ELSE LET normalizedRelativePath == PathNormalize(relativePath)
             resolvedPath == PathResolve(repoPath, normalizedRelativePath)
         IN  IF resolvedPath # repoPath /\ ~isWithinDirectory(resolvedPath, repoPath)
             THEN [ok |-> FALSE,
                   value |-> EMPTY,
                   error |-> createStandardizedError(
                               "Access denied: attempts to traverse outside the repository root",
                               "PATH_TRAVERSAL_ATTEMPT",
                               CATEGORY_VALIDATION,
                               SEVERITY_ERROR,
                               [requestedPath |-> relativePath,
                                resolvedPath |-> resolvedPath,
                                repoPath |-> repoPath,
                                parameter |-> paramName])]
             ELSE [ok |-> TRUE, value |-> normalizedRelativePath, error |-> NoRec]

\* handleGitError that never looks at the tool code
handleGitError_alwaysUnknown(error, defaultMessage) ==
    wrapExceptionAsStandardizedError(error, defaultMessage)

\* GitService.handleGitError
handleGitError(error, defaultMessage) ==
    IF ~Falsy(error.code)
    THEN createGitError(
            IF Falsy(error.message) THEN defaultMessage ELSE error.message,
            error.code,
            [command |-> error.command, args |-> error.args, stderr |-> error.stderr])
    ELSE wrapExceptionAsStandardizedError(error, defaultMessage)

-----------------------------------------------------------------------------
(* services/git-service: the operations, up to their first command *)

NoCmd == [name |-> "none", paths |-> <<>>, flags |-> {}]

\* how the synchronous part of a facade method ends: an exception leaves the
\* method, a result is returned, or an underlying command is dispatched
Threw(e) == [kind |-> "threw", error |-> e, result |-> NoRec, cmd |-> NoCmd]
Returned(r) == [kind |-> "returned", error |-> NoRec, result |-> r, cmd |-> NoCmd]
Dispatch(c) == [kind |-> "dispatch", error |-> NoRec, result |-> NoRec, cmd |-> c]

\* a catch block that classifies its own rejections again
catchPathOperation_wrapsAll(error, defaultMessage) ==
    Returned(createFailureResult(
        createStandardizedError(defaultMessage, "UNEXPECTED_ERROR", CATEGORY_UNKNOWN,
                                SEVERITY_ERROR, [originalException |-> error])))

\* the catch block of the path-bearing operations: a standardized error is
\* rethrown, anything else is classified and returned
catchPathOperation(error, defaultMessage) ==
    IF IsStandardized(error)
    THEN Threw(error)
    ELSE Returned(createFailureResult(handleGitError(error, defaultMessage)))

\* a catch block that lets the command's error through as it is
catchOperation_propagates(error, defaultMessage) ==
    Threw(error)

\* a catch block that runs the command once more
catchOperation_retries(error, defaultMessage) ==
    Dispatch([name |-> "retry", paths |-> <<>>, flags |-> {}])

\* a catch block that classifies and rethrows
catchOperation_rethrows(error, defaultMessage) ==
    Threw(handleGitError(error, defaultMessage))

\* the catch block of every other operation
catchOperation(error, defaultMessage) ==
    Returned(createFailureResult(handleGitError(error, defaultMessage)))

\* files.map(file => validateRelativePath(file, "files")): the index of the
\* first member that is rejected, 0 when every member passes
FirstRejected(repoPath, files) ==
    LET bad == {i \in 1..Len(files) :
                  ~validateRelativePath(repoPath, files[i], "files").ok}
    IN  IF bad = {} THEN 0 ELSE CHOOSE i \in bad : \A j \in bad : i <= j

ValidatedFiles(repoPath, files) ==
    [i \in 1..Len(files) |-> validateRelativePath(repoPath, files[i], "files").value]

\* GitService.stageFiles
stageFiles(repoPath, files, isList) ==
    IF isList /\ Len(files) = 0
    THEN Returned(createSuccessResult("No files to stage"))
    ELSE LET bad == FirstRejected(repoPath, files) IN
         IF bad # 0
         THEN catchPathOperation(
                 validateRelativePath(repoPath, files[bad], "files").error,
                 "Failed to stage files")
         ELSE Dispatch([name |-> "add",
                        paths |-> ValidatedFiles(repoPath, files),
                        flags |-> {}])

\* GitService.unstageFiles
unstageFiles(repoPath, files, isList) ==
    IF isList /\ Len(files) = 0
    THEN Returned(createSuccessResult("No files to unstage"))
    ELSE LET bad == FirstRejected(repoPath, files) IN
         IF bad # 0
         THEN catchPathOperation(
                 validateRelativePath(repoPath, files[bad], "files").error,
                 "Failed to unstage files")
         ELSE Dispatch([name |-> "reset",
                        paths |-> ValidatedFiles(repoPath, files),
                        flags |-> {"--"}])

\* the shape shared by getLog, getDiff, getStagedDiff and getUnstagedDiff:
\* an optional path is validated only when it is truthy, and handed to the
\* command only when its validated form is truthy
OptionalPathOperation(repoPath, file, paramName, cmdName, cmdFlags, defaultMessage) ==
    IF Len(file) > 0
    THEN LET v == validateRelativePath(repoPath, file, paramName) IN
         IF ~v.ok
         THEN catchPathOperation(v.error, defaultMessage)
         ELSE Dispatch([name |-> cmdName,
                        paths |-> IF Len(v.value) > 0 THEN <<v.value>> ELSE <<>>,
                        flags |-> cmdFlags])
    ELSE Dispatch([name |-> cmdName, paths |-> <<>>, flags |-> cmdFlags])

\* the shape shared by getBlame, getFileAtRef and listFilesAtRef: the path
\* is always validated and always handed to the command
RequiredPathOperation(repoPath, file, paramName, cmdName, cmdFlags, defaultMessage) ==
    LET v == validateRelativePath(repoPath, file, paramName) IN
    IF ~v.ok
    THEN catchPathOperation(v.error, defaultMessage)
    ELSE Dispatch([name |-> cmdName, paths |-> <<v.value>>, flags |-> cmdFlags])

\* GitService.getLog
getLog(repoPath, file) ==
    OptionalPathOperation(repoPath, file, "options.file", "log", {},
                          "Failed to get commit history")

\* GitService.getBlame
getBlame(repoPath, filePath) ==
    RequiredPathOperation(repoPath, filePath, "filePath", "blame", {},
                          "Failed to get blame")

\* GitService.getDiff
getDiff(repoPath, filePath) ==
    OptionalPathOperation(repoPath, filePath, "filePath", "diff", {"--name-status"},
                          "Failed to get diff")

\* GitService.getFileAtRef
getFileAtRef(repoPath, filePath) ==
    RequiredPathOperation(repoPath, filePath, "filePath", "show", {},
                          "Failed to get file at ref")

\* GitService.getUnstagedDiff, up to the diff command
getUnstagedDiff(repoPath, filePath) ==
    OptionalPathOperation(repoPath, filePath, "filePath", "diff", {},
                          "Failed to get unstaged diff")

\* GitService.getStagedDiff
getStagedDiff(repoPath, filePath) ==
    OptionalPathOperation(repoPath, filePath, "filePath", "diff", {"--cached"},
                          "Failed to get staged diff")

\* GitService.listFilesAtRef
listFilesAtRef(repoPath, dirPath) ==
    RequiredPathOperation(repoPath, dirPath, "dirPath", "ls-tree", {"--name-only"},
                          "Failed to list files in directory")

\* a commit that gives way while another request has a command in flight
commit_whenIdle ==
    IF \E s \in DOMAIN reqs : reqs[s].pc = "cmd"
    THEN Returned(createFailureResult(
             createGitError("Repository is busy", "REPOSITORY_BUSY",
                            [command |-> "commit", args |-> "undefined", stderr |-> "undefined"])))
    ELSE Dispatch([name |-> "commit", paths |-> <<>>, flags |-> {}])

\* GitService.commit
commit ==
    Dispatch([name |-> "commit", paths |-> <<>>, flags |-> {}])

\* GitService.createBranch, up to its first await: git branch
createBranch ==
    Dispatch([name |-> "branch", paths |-> <<>>, flags |-> {}])

\* a createBranch that goes on to the checkout whatever became of git branch
createBranchChecksOut_always(checkout, error) ==
    checkout

\* GitService.createBranch when git branch settled: git checkout is
\* dispatched when options.checkout is set and git branch did not throw
createBranchChecksOut(checkout, error) ==
    checkout /\ error = NoError

\* GitService.deleteBranch
deleteBranch ==
    Dispatch([name |-> "branch", paths |-> <<>>, flags |-> {"-d"}])

\* GitService.push
push ==
    Dispatch([name |-> "push", paths |-> <<>>, flags |-> {}])

\* GitService.cherryPick with the non-empty list the schema guarantees
cherryPick ==
    Dispatch([name |-> "cherry-pick", paths |-> <<>>, flags |-> {}])

\* GitService.clean
clean ==
    Dispatch([name |-> "clean", paths |-> <<>>, flags |-> {"-f"}])

\* GitService.showCommit
showCommit ==
    Dispatch([name |-> "show", paths |-> <<>>, flags |-> {}])

\* GitService.merge: both flags are passed on when both are set
merge(fastForwardOnly, noFastForward) ==
    Dispatch([name |-> "merge",
              paths |-> <<>>,
              flags |-> (IF fastForwardOnly THEN {"--ff-only"} ELSE {})
                        \cup (IF noFastForward THEN {"--no-ff"} ELSE {})])

\* GitService.reset: the mode is interpolated into the flag as it is
reset(mode) ==
    Dispatch([name |-> "reset", paths |-> <<>>, flags |-> {mode}])

-----------------------------------------------------------------------------
(* The environment: the configured base directory and the files on disk *)

\* GIT_MCP_BASE_DIR values the server is started with
BaseDirEnv == {<<"/", "a">>}

\* entries that exist on disk: working repositories inside the base
\* directory (a/b, a/bb) and outside it (aa, b), and a plain directory (a/c)
FsEntries ==
    {<<"/", "a">>,
     <<"/", "a", "/", "b">>,
     <<"/", "a", "/", "b", "/", ".", "g", "i", "t">>,
     <<"/", "a", "/", "b", "b">>,
     <<"/", "a", "/", "b", "b", "/", ".", "g", "i", "t">>,
     <<"/", "a", "/", "c">>,
     <<"/", "a", "a">>,
     <<"/", "a", "a", "/", ".", "g", "i", "t">>,
     <<"/", "b">>,
     <<"/", "b", "/", ".", "g", "i", "t">>}

\* fs.access
access(p) == p \in fs

DotGit == <<".", "g", "i", "t">>
BareMarkers == {<<"H", "E", "A", "D">>, <<"c", "o", "n", "f", "i", "g">>, <<"o", "b", "j", "e", "c", "t", "s">>, <<"r", "e", "f", "s">>}

\* the filesystem half of GitService.isGitRepository: a dot-git entry, or all
\* four markers of a bare repository
HasGitMarkers(normalizedDirPath) ==
    \/ access(PathJoin(normalizedDirPath, DotGit))
    \/ \A file \in BareMarkers : access(PathJoin(normalizedDirPath, file))

\* GitService.isGitRepository
isGitRepository(dirPath, gwd, baseDir) ==
    LET normalizedDirPath == normalizePath(dirPath, gwd) IN
    IF ~isWithinDirectory(normalizedDirPath, baseDir)
    THEN FALSE
    ELSE HasGitMarkers(normalizedDirPath)

-----------------------------------------------------------------------------
(* Requests: the inputs a client can send *)

\* repository paths named by requests
RepoPathInputs == {DOT, <<"/", "a", "/", "b">>, <<"/", "a", "/", "c">>, <<"/", "a", "a">>, <<"/", "b">>, <<"/", "a", "/", ".", ".", "/", "b">>}

\* secondary paths named by requests, relative to the repository
FileInputs == {<<"f">>, <<".", ".", "/", "b", "b", "/", "f">>, <<".", ".", "/", "c">>, <<"/", "b">>, DOT}

\* members of the lists handed to git_add and git_reset: a file of the
\* repository, a file of a sibling directory that shares the prefix of the
\* repository path, and a file of another directory
ListFileInputs == {<<"f">>, <<".", ".", "/", "b", "b", "/", "f">>, <<".", ".", "/", "c">>}

\* directories handed to git_set_working_dir: a repository inside the base
\* directory, a plain directory inside it, and repositories outside it
WorkingDirInputs == {<<"/", "a", "/", "b", "b">>, <<"/", "a", "/", "c">>, <<"/", "a", "a">>, <<"/", "b">>}

\* target directories handed to git_init and git_clone: a plain directory,
\* a directory that does not exist, an existing repository, a directory
\* outside the base directory, and the placeholder
InitPathInputs == {<<"/", "a", "/", "c">>, <<"/", "a", "/", "n">>, <<"/", "a", "/", "b">>, <<"/", "b">>, DOT}

\* reset modes a client can send; the last is outside the enumeration
ModeInputs == {"hard", "soft", "mixed", "keep"}

SeqsUpTo(S, n) == UNION {[1..k -> S] : k \in 0..n}

RegistryTools == {"git_set_working_dir", "git_clear_working_dir"}

ListTools == {"git_add", "git_reset"}

\* adapters whose secondary path is optional
OptionalPathTools == {"git_log", "diff-refs", "git_diff_staged", "git_diff_unstaged"}

\* resource adapters that run their secondary path through normalizePath
NormalizingTools == {"file-blame", "file-at-ref", "directory-listing"}

PathTools == ListTools \cup OptionalPathTools \cup NormalizingTools

PlainTools == {"git_commit", "git_merge", "git_reset_commit", "git_show"}

FacadeTools == PathTools \cup PlainTools

\* handler slots: requests are served concurrently; they share nothing but
\* the registry and the disk, so the second slot serves the registry tools
Slots == {1, 2}

ToolsOf(s) == IF s = 1 THEN FacadeTools \cup RegistryTools ELSE RegistryTools

DefaultArgs ==
    [path |-> DOT, files |-> <<>>, isList |-> FALSE,
     fastForwardOnly |-> FALSE, noFastForward |-> FALSE, mode |-> "mixed",
     validateGitRepo |-> TRUE, showUntracked |-> TRUE, bare |-> FALSE,
     checkout |-> FALSE]

\* the argument records a client can send to a tool
ArgsFor(tool) ==
    LET withPath == {[DefaultArgs EXCEPT !.path = p] : p \in RepoPathInputs} IN
    IF tool \in ListTools
    THEN {[a EXCEPT !.files = <<f>>] : a \in withPath, f \in FileInputs}
         \cup {[a EXCEPT !.files = list, !.isList = TRUE] :
                 a \in withPath, list \in SeqsUpTo(ListFileInputs, MaxFiles)}
    ELSE IF tool = "git_diff_unstaged"
    THEN {[a EXCEPT !.files = <<f>>, !.showUntracked = u] :
            a \in withPath, f \in FileInputs \cup {EMPTY}, u \in BOOLEAN}
    ELSE IF tool \in OptionalPathTools
    THEN {[a EXCEPT !.files = <<f>>] : a \in withPath, f \in FileInputs \cup {EMPTY}}
    ELSE IF tool \in NormalizingTools
    THEN {[a EXCEPT !.files = <<f>>] : a \in withPath, f \in FileInputs \cup {EMPTY}}
    ELSE IF tool = "git_merge"
    THEN {[a EXCEPT !.fastForwardOnly = x, !.noFastForward = y] :
            a \in withPath, x \in BOOLEAN, y \in BOOLEAN}
    ELSE IF tool = "git_reset_commit"
    THEN {[a EXCEPT !.mode = m] : a \in withPath, m \in ModeInputs}
    ELSE IF tool = "git_set_working_dir"
    THEN {[DefaultArgs EXCEPT !.path = p, !.validateGitRepo = v] :
            p \in WorkingDirInputs, v \in BOOLEAN}
    ELSE IF tool = "git_clear_working_dir"
    THEN {DefaultArgs}
    ELSE IF tool = "git_init"
    THEN {[DefaultArgs EXCEPT !.path = p, !.bare = b] :
            p \in InitPathInputs, b \in BOOLEAN}
    ELSE IF tool = "git_clone"
    THEN {[DefaultArgs EXCEPT !.path = p] : p \in InitPathInputs}
    ELSE IF tool = "git_branch_create"
    THEN {[a EXCEPT !.checkout = c] : a \in withPath, c \in BOOLEAN}
    ELSE withPath

-----------------------------------------------------------------------------
(* tools/*.ts and resources/*.ts: the adapters *)

ResetModes == {"hard", "soft", "mixed"}

\* a schema whose reset mode is a free-form string
SchemaAccepts_anyMode(tool, a) ==
    /\ Len(a.path) >= 1
    /\ tool \in ListTools => \A i \in 1..Len(a.files) : Len(a.files[i]) >= 1

\* the zod schema of a tool, applied by the protocol layer before the
\* handler runs: non-empty strings, and z.enum for the reset mode
SchemaAccepts(tool, a) ==
    /\ Len(a.path) >= 1
    /\ tool \in ListTools => \A i \in 1..Len(a.files) : Len(a.files[i]) >= 1
    /\ tool = "git_reset_commit" => a.mode \in ResetModes

\* what the adapter hands to the facade as secondary path: the resource
\* adapters normalize it first, the tools pass it as received
AdapterFiles(tool, files, gwd) ==
    IF tool \in NormalizingTools
    THEN [i \in 1..Len(files) |-> normalizePath(files[i], gwd)]
    ELSE files

\* the catch block of an adapter:
\* error instanceof Error ? error.message : String(error)
ExceptionResponse(error) ==
    [isError |-> TRUE,
     text |-> IF "isError" \in DOMAIN error /\ error.isError
              THEN error.message
              ELSE "[object Object]"]

\* the response an adapter builds from an OperationResult
ResultResponse(result) ==
    IF result.resultSuccessful
    THEN [isError |-> FALSE, text |-> "ok"]
    ELSE [isError |-> TRUE, text |-> result.resultError.errorMessage]

\* the catch block of the git_show adapter:
\* error?.message || error?.errorMessage || String(error)
ShowExceptionResponse(error) ==
    [isError |-> TRUE,
     text |-> IF "message" \in DOMAIN error /\ ~Falsy(error.message)
              THEN error.message
              ELSE IF "errorMessage" \in DOMAIN error /\ ~Falsy(error.errorMessage)
              THEN error.errorMessage
              ELSE "[object Object]"]

\* the catch block of the adapter of a tool
CatchResponse(tool, error) ==
    IF tool = "git_show" THEN ShowExceptionResponse(error) ELSE ExceptionResponse(error)

NoResponse == [isError |-> FALSE, text |-> "none"]

\* a free handler slot
IdleReq ==
    [pc |-> "idle", tool |-> "none",
     path |-> EMPTY, files |-> <<>>, isList |-> FALSE,
     fastForwardOnly |-> FALSE, noFastForward |-> FALSE, mode |-> "mixed",
     validateGitRepo |-> TRUE, showUntracked |-> TRUE, bare |-> FALSE,
     checkout |-> FALSE,
     schemaOk |-> TRUE,
     normalizedPath |-> EMPTY,     \* the adapter's normalizedPath
     constructed |-> FALSE,        \* a GitService was constructed
     repoPath |-> EMPTY,           \* GitService.repoPath
     facadeFiles |-> <<>>,         \* secondary paths handed to the facade
     probeAllowed |-> FALSE,       \* isGitRepository passed its sandbox check
     called |-> FALSE,             \* a facade operation was invoked
     cmds |-> <<>>,                \* underlying commands dispatched so far
     cmdError |-> NoError,         \* what the last failed command raised
     logged |-> NoError,           \* the error initRepo wrote to the log
     threwAt |-> "none",           \* "constructor" or "operation"
     thrown |-> NoRec,             \* the exception that left the facade
     result |-> NoRec,             \* the OperationResult the facade returned
     response |-> NoResponse]

\* the synchronous part of the facade method a tool calls
FacadeBegin(r) ==
    CASE r.tool = "git_add" -> stageFiles(r.repoPath, r.facadeFiles, r.isList)
      [] r.tool = "git_reset" -> unstageFiles(r.repoPath, r.facadeFiles, r.isList)
      [] r.tool = "git_log" -> getLog(r.repoPath, r.facadeFiles[1])
      [] r.tool = "file-blame" -> getBlame(r.repoPath, r.facadeFiles[1])
      [] r.tool = "diff-refs" -> getDiff(r.repoPath, r.facadeFiles[1])
      [] r.tool = "git_diff_staged" -> getStagedDiff(r.repoPath, r.facadeFiles[1])
      [] r.tool = "git_diff_unstaged" -> getUnstagedDiff(r.repoPath, r.facadeFiles[1])
      [] r.tool = "file-at-ref" -> getFileAtRef(r.repoPath, r.facadeFiles[1])
      [] r.tool = "directory-listing" -> listFilesAtRef(r.repoPath, r.facadeFiles[1])
      [] r.tool = "git_commit" -> commit
      [] r.tool = "git_merge" -> merge(r.fastForwardOnly, r.noFastForward)
      [] r.tool = "git_reset_commit" -> reset(r.mode)
      [] r.tool = "git_show" -> showCommit
      [] r.tool = "git_branch_create" -> createBranch
      [] r.tool = "git_branch_delete" -> deleteBranch
      [] r.tool = "git_push" -> push
      [] r.tool = "git_cherry_pick" -> cherryPick
      [] r.tool = "git_clean" -> clean

\* the catch block of the facade method a tool calls, for a failed command
FacadeCatch(r, error) ==
    IF r.tool \in PathTools
    THEN catchPathOperation(error, "Failed path operation")
    ELSE catchOperation(error, "Failed operation")

\* the handler of a repository tool, from the request to its first await:
\* schema, normalizePath, new GitService, and the sandbox half of
\* isGitRepository
HandlerStart(tool, a, gwd, baseDir) ==
    LET r0 == [IdleReq EXCEPT
                  !.tool = tool, !.path = a.path, !.files = a.files,
                  !.isList = a.isList,
                  !.fastForwardOnly = a.fastForwardOnly,
                  !.noFastForward = a.noFastForward,
                  !.mode = a.mode,
                  !.validateGitRepo = a.validateGitRepo,
                  !.showUntracked = a.showUntracked,
                  !.bare = a.bare,
                  !.checkout = a.checkout]
    IN  IF ~SchemaAccepts(tool, a)
        THEN [r0 EXCEPT !.pc = "done", !.schemaOk = FALSE,
                        !.response = [isError |-> TRUE, text |-> "Invalid arguments"]]
        ELSE LET normalizedPath == normalizePath(a.path, gwd)
                 ctor == GitServiceConstructor(normalizedPath, gwd, baseDir)
             IN  IF ~ctor.ok
                 THEN [r0 EXCEPT !.pc = "done",
                                 !.normalizedPath = normalizedPath,
                                 !.threwAt = "constructor",
                                 !.thrown = ctor.error,
                                 !.response = CatchResponse(tool, ctor.error)]
                 ELSE [r0 EXCEPT !.pc = "probe",
                                 !.normalizedPath = normalizedPath,
                                 !.constructed = TRUE,
                                 !.repoPath = ctor.repoPath,
                                 !.facadeFiles = AdapterFiles(tool, a.files, gwd),
                                 !.probeAllowed =
                                     isWithinDirectory(normalizePath(ctor.repoPath, gwd), baseDir)]

\* a git_merge handler without its option check
MergeOptionsConflict_unchecked(r) == FALSE

\* git_merge: "Can't have both fastForwardOnly and noFastForward"
MergeOptionsConflict(r) ==
    r.tool = "git_merge" /\ r.fastForwardOnly /\ r.noFastForward

\* a handle that resolves the placeholder again each time it is used
HandlerOutcome_rebinds(r, o) ==
    CASE o.kind = "threw" ->
           [r EXCEPT !.pc = "done", !.called = TRUE,
                     !.repoPath = IF r.path = DOT
                                  THEN normalizePath(DOT, globalWorkingDir)
                                  ELSE r.repoPath,
                     !.threwAt = "operation", !.thrown = o.error,
                     !.response = CatchResponse(r.tool, o.error)]
      [] o.kind = "returned" ->
           [r EXCEPT !.pc = "done", !.called = TRUE,
                     !.repoPath = IF r.path = DOT
                                  THEN normalizePath(DOT, globalWorkingDir)
                                  ELSE r.repoPath,
                     !.result = o.result,
                     !.response = ResultResponse(o.result)]
      [] o.kind = "dispatch" ->
           [r EXCEPT !.pc = "cmd", !.called = TRUE,
                     !.repoPath = IF r.path = DOT
                                  THEN normalizePath(DOT, globalWorkingDir)
                                  ELSE r.repoPath,
                     !.cmds = Append(r.cmds, o.cmd)]

\* what the handler does with the outcome o of the synchronous part of its
\* facade call: an exception goes to the handler's catch block, a result is
\* turned into the response, a dispatched command is awaited
HandlerOutcome(r, o) ==
    CASE o.kind = "threw" ->
           [r EXCEPT !.pc = "done", !.called = TRUE,
                     !.threwAt = "operation", !.thrown = o.error,
                     !.response = CatchResponse(r.tool, o.error)]
      [] o.kind = "returned" ->
           [r EXCEPT !.pc = "done", !.called = TRUE,
                     !.result = o.result,
                     !.response = ResultResponse(o.result)]
      [] o.kind = "dispatch" ->
           [r EXCEPT !.pc = "cmd", !.called = TRUE,
                     !.cmds = Append(r.cmds, o.cmd)]

\* the handler after isGitRepository resolved with true: the adapter's own
\* checks and the synchronous part of the facade method
HandlerCall(r) ==
    IF MergeOptionsConflict(r)
    THEN [r EXCEPT !.pc = "done",
                   !.response = [isError |-> TRUE,
                                 text |-> "Cannot specify both fastForwardOnly and noFastForward"]]
    ELSE HandlerOutcome(r, FacadeBegin(r))

\* the facade method when its command completed: error is NoError on success
HandlerResume(r, error) ==
    LET statusStep == r.tool = "git_diff_unstaged" /\ Len(r.cmds) = 2
        o == IF error = NoError \/ statusStep
             THEN Returned(createSuccessResult("output"))
             ELSE FacadeCatch(r, error)
    IN  IF /\ error = NoError
           /\ r.tool = "git_diff_unstaged" /\ r.showUntracked /\ Len(r.cmds) = 1
        THEN \* getUnstagedDiff goes on to getStatus for the untracked files
             [r EXCEPT !.cmds = Append(r.cmds, [name |-> "status", paths |-> <<>>, flags |-> {}])]
        ELSE IF /\ r.tool = "git_branch_create" /\ Len(r.cmds) = 1
                /\ createBranchChecksOut(r.checkout, error)
        THEN \* createBranch goes on to the checkout of the new branch
             [r EXCEPT !.cmdError = error,
                       !.cmds = Append(r.cmds, [name |-> "checkout", paths |-> <<>>, flags |-> {}])]
        ELSE [HandlerOutcome(r, o) EXCEPT !.cmdError = error]

-----------------------------------------------------------------------------
(* services/git-service: initRepo and cloneRepo *)

InitTools == {"git_init", "git_clone"}

README == <<"R", "E", "A", "D", "M", "E", ".", "m", "d">>

\* fs.mkdir(p, { recursive: true }): p and every missing ancestor
MkdirRecursive(p) == PathPrefixes(p)

\* what a successful git init leaves on disk
GitInitEntries(repoPath, bare) ==
    IF bare
    THEN {PathJoin(repoPath, file) : file \in BareMarkers}
    ELSE {PathJoin(repoPath, DotGit)}

\* the command initRepo / cloneRepo runs once the directory exists
RepositoryCommand(r) ==
    IF r.tool = "git_init"
    THEN [name |-> "init", paths |-> <<>>,
          flags |-> IF r.bare THEN {"--initial-branch", "--bare"} ELSE {"--initial-branch"}]
    ELSE [name |-> "clone", paths |-> <<r.repoPath>>, flags |-> {}]

\* the git_init / git_clone handler after new GitService: it does not probe
\* the repository and enters ensureRepoPathExists
InitHandlerEnter(r) ==
    IF r.pc = "probe"
    THEN [r EXCEPT !.pc = "access", !.called = TRUE, !.probeAllowed = FALSE]
    ELSE r

\* ensureRepoPathExists resolved: the command is dispatched
DispatchRepositoryCommand(r) ==
    [r EXCEPT !.pc = IF r.tool = "git_init" THEN "init" ELSE "clone",
              !.cmds = Append(r.cmds, RepositoryCommand(r))]

\* the outer catch of initRepo / cloneRepo, and the handler's answer
RepositoryFailure(r, error) ==
    [HandlerOutcome(r, catchOperation(error, "Failed to initialize repository"))
       EXCEPT !.cmdError = error]

\* initRepo whose inner catch hands the failure to the outer one
initRepoBootstrapCatch_fatal(commitError) ==
    [logged |-> commitError,
     outcome |-> catchOperation(commitError, "Failed to initialize repository")]

\* the inner catch of initRepo: the failure of the initial commit is written
\* to the log and initRepo goes on to return its success result
initRepoBootstrapCatch(commitError) ==
    [logged |-> commitError,
     outcome |-> Returned(createSuccessResult("Initialized"))]

\* a bootstrap step (write README.md, add, commit) failed
BootstrapFailure(r, c) ==
    [HandlerOutcome(r, c.outcome) EXCEPT !.logged = c.logged]

-----------------------------------------------------------------------------
(* services/git-service: listFilesAtRef and the ls-tree command under it *)

\* the blobs a commit can hold, by path from the repository root
TreeFiles ==
    {<<"a", "/", "b", "/", "c">>, <<"a", "/", "d">>, <<"e">>, <<"a", "b", "/", "g">>}

\* the trees a reference can name
Trees == SUBSET TreeFiles \ {{}}

\* every entry of the tree: the blobs and the directories above them
TreeEntries(tree) == UNION {PathPrefixes(f) : f \in tree}

IsTreeEntry(tree, e) == \E f \in tree : StartsWith(f, e \o SLASH)

\* the pathspec git matches with: "." names the root
Pathspec(arg) == IF arg \in {DOT, DOT \o SLASH} THEN EMPTY ELSE arg

\* ls-tree without -r descends into a directory only when the pathspec
\* goes on below it
LsTreeDescends(spec, d) ==
    /\ StartsWith(spec, d)
    /\ Len(spec) > Len(d)
    /\ spec[Len(d) + 1] = "/"

\* the entry matches the pathspec
LsTreeMatches(tree, spec, e) ==
    \/ spec = EMPTY
    \/ e = spec
    \/ StartsWith(e, IF spec[Len(spec)] = "/" THEN spec ELSE spec \o SLASH)
    \/ IsTreeEntry(tree, e) /\ LsTreeDescends(spec, e)

\* git ls-tree --name-only <ref> <path>: the matching entries in the
\* directories it descended into, by path from the repository root
LsTree(tree, arg) ==
    {e \in TreeEntries(tree) :
        /\ LsTreeMatches(tree, Pathspec(arg), e)
        /\ \A d \in PathPrefixes(e) \ {e} : LsTreeDescends(Pathspec(arg), d)
        /\ ~(IsTreeEntry(tree, e) /\ LsTreeDescends(Pathspec(arg), e))}

\* the members of a set in the order the command prints them
SeqOfSet(S) == CHOOSE q \in [1..Cardinality(S) -> S] : \A e \in S : \E i \in DOMAIN q : q[i] = e

\* the text the command prints: one name per line
RECURSIVE PrintLines(_, _)
PrintLines(names, i) ==
    IF i > Len(names) THEN EMPTY
    ELSE names[i] \o NEWLINE \o PrintLines(names, i + 1)

LsTreeOutput(tree, arg) == PrintLines(SeqOfSet(LsTree(tree, arg)), 1)

\* listFilesAtRef after its command: result.split("\n").filter(line => line.trim() !== "")
ParseListing(result) ==
    SelectSeq(SplitLinesFrom(result, 1, EMPTY), LAMBDA line : Trim(line) # EMPTY)

\* the repository the listings are taken from
ListingRepo == <<"/", "a", "/", "b">>

\* directories handed to the directory-listing resource
ListDirInputs ==
    {<<"a">>, <<"a", "/">>, <<"a", "/", "b">>, <<"a", "/", "b", "/">>, <<"a", "b">>,
     DOT, EMPTY, <<".", "/", "a">>}

\* the directory-listing handler and listFilesAtRef on a tree: normalizePath,
\* validateRelativePath, ls-tree, and the parsing of its output
ListedFiles(tree, dirPath, gwd) ==
    ParseListing(
        LsTreeOutput(tree,
            validateRelativePath(ListingRepo, normalizePath(dirPath, gwd), "dirPath").value))

-----------------------------------------------------------------------------
(* The pure path functions on generated inputs *)

\* segment names the generated paths are made of
SegmentNames == {<<"a">>, <<"a", "a">>, <<"b">>, DOTDOT, DOT}

\* relative paths of 1..n segments
RECURSIVE RelativePaths(_)
RelativePaths(n) ==
    IF n <= 1 THEN SegmentNames
    ELSE LET shorter == RelativePaths(n - 1) IN
         shorter \cup {p \o SLASH \o g : p \in shorter, g \in SegmentNames}

GeneratedPaths ==
    LET rel == RelativePaths(MaxSegs) IN
    rel \cup {SLASH \o p : p \in rel} \cup {p \o SLASH : p \in rel}
        \cup {EMPTY, SLASH}

\* base directories the containment test is asked about
BasePaths == {<<"/", "a">>, <<"/", "a", "/", "b">>, <<"/", "a", "/">>, <<"a">>}

PathCheckIdle == [done |-> FALSE, target |-> EMPTY, base |-> EMPTY, result |-> FALSE]

\* no isGitRepository call has been made
ProbeIdle == [done |-> FALSE, dirPath |-> EMPTY, probed |-> FALSE, result |-> FALSE]

\* no listFilesAtRef call has been made
ListingIdle == [done |-> FALSE, tree |-> {}, dirPath |-> EMPTY, files |-> <<>>]

-----------------------------------------------------------------------------
(* The process *)

\* process.env.GIT_MCP_BASE_DIR: unset, or a string
EnvAbsent == [isSet |-> FALSE, value |-> EMPTY]
EnvOf(v) == [isSet |-> TRUE, value |-> v]

\* the server connected to its transport, with the settings singleton
\* constructed from the environment value e
ServerRunning(e) == [env |-> EnvOf(e), phase |-> "running", instance |-> TRUE]

-----------------------------------------------------------------------------
(* State machine *)

Init ==
    /\ \E e \in BaseDirEnv :
         /\ allowedBaseDir = PathResolve(EMPTY, e)
         /\ server = ServerRunning(e)
    /\ globalWorkingDir = GwdNull
    /\ reqs = [s \in Slots |-> IdleReq]
    /\ pathCheck = PathCheckIdle
    /\ fs = FsEntries
    /\ probe = ProbeIdle
    /\ listing = ListingIdle

\* a repository tool or resource handler runs up to its first await
ReceiveRequest(s) ==
    /\ reqs[s].pc = "idle"
    /\ \E tool \in ToolsOf(s) \cap FacadeTools : \E a \in ArgsFor(tool) :
         reqs' = [reqs EXCEPT ![s] =
                     HandlerStart(tool, a, globalWorkingDir, allowedBaseDir)]
    /\ UNCHANGED <<allowedBaseDir, globalWorkingDir, pathCheck, fs, probe, listing, server>>

\* git_set_working_dir, up to its first await or, without validation, whole
GitSetWorkingDir(s) ==
    /\ reqs[s].pc = "idle"
    /\ "git_set_working_dir" \in ToolsOf(s)
    /\ \E a \in ArgsFor("git_set_working_dir") :
         LET normalizedPath == normalizePath(a.path, globalWorkingDir)
             r0 == [IdleReq EXCEPT !.tool = "git_set_working_dir",
                                   !.path = a.path,
                                   !.validateGitRepo = a.validateGitRepo,
                                   !.normalizedPath = normalizedPath]
         IN  IF a.validateGitRepo
             THEN /\ reqs' = [reqs EXCEPT ![s] =
                                 [HandlerStart("git_set_working_dir", a,
                                               globalWorkingDir, allowedBaseDir)
                                  EXCEPT !.facadeFiles = <<>>]]
                  /\ UNCHANGED globalWorkingDir
             ELSE /\ setGlobalWorkingDir(GwdOf(normalizedPath))
                  /\ reqs' = [reqs EXCEPT ![s] =
                                 [r0 EXCEPT !.pc = "done",
                                            !.response = [isError |-> FALSE, text |-> "ok"]]]
    /\ UNCHANGED <<allowedBaseDir, pathCheck, fs, probe, listing, server>>

\* git_clear_working_dir
GitClearWorkingDir(s) ==
    /\ reqs[s].pc = "idle"
    /\ "git_clear_working_dir" \in ToolsOf(s)
    /\ setGlobalWorkingDir(GwdNull)
    /\ reqs' = [reqs EXCEPT ![s] =
                   [IdleReq EXCEPT !.pc = "done",
                                   !.tool = "git_clear_working_dir",
                                   !.response = [isError |-> FALSE, text |-> "ok"]]]
    /\ UNCHANGED <<allowedBaseDir, pathCheck, fs, probe, listing, server>>

\* a git_set_working_dir handler that stores the directory before it looks
\* at the answer of the probe
SetWorkingDirStores_always(isRepo) == TRUE

\* git_set_working_dir after the probe: `if (!isRepo) return` comes before
\* the call of setGlobalWorkingDir
SetWorkingDirStores(isRepo) == isRepo

\* an adapter that calls its facade operation whatever the probe answered
ProceedsToFacade_unprobed(isRepo) == TRUE

\* a repository adapter after the probe: `if (!isRepo) return` with an error
\* response comes before the call of the facade operation
ProceedsToFacade(isRepo) == isRepo

\* isGitRepository resolves; the handler goes on to its facade call, or
\* git_set_working_dir stores the directory
ProbeDone(s) ==
    LET r == reqs[s]
        isRepo == r.probeAllowed /\ HasGitMarkers(r.repoPath)
        notRepo == [r EXCEPT !.pc = "done",
                             !.response = [isError |-> TRUE, text |-> "Not a Git repository"]]
    IN  /\ r.pc = "probe"
        /\ IF r.tool = "git_set_working_dir"
           THEN /\ IF SetWorkingDirStores(isRepo)
                   THEN setGlobalWorkingDir(GwdOf(r.normalizedPath))
                   ELSE UNCHANGED globalWorkingDir
                /\ reqs' = [reqs EXCEPT ![s] =
                               IF isRepo
                               THEN [r EXCEPT !.pc = "done",
                                              !.response = [isError |-> FALSE, text |-> "ok"]]
                               ELSE notRepo]
           ELSE /\ reqs' = [reqs EXCEPT ![s] =
                               IF ProceedsToFacade(isRepo) THEN HandlerCall(r) ELSE notRepo]
                /\ UNCHANGED globalWorkingDir
        /\ UNCHANGED <<allowedBaseDir, pathCheck, fs, probe, listing, server>>

\* the command in flight completes, with success or with a failure
CommandDone(s) ==
    /\ reqs[s].pc = "cmd"
    /\ \E error \in CommandErrors \cup {NoError} :
         reqs' = [reqs EXCEPT ![s] = HandlerResume(reqs[s], error)]
    /\ UNCHANGED <<allowedBaseDir, globalWorkingDir, pathCheck, fs, probe, listing, server>>

\* the response is delivered and the handle dropped
Retire(s) ==
    /\ reqs[s].pc = "done"
    /\ reqs' = [reqs EXCEPT ![s] = IdleReq]
    /\ UNCHANGED <<allowedBaseDir, globalWorkingDir, pathCheck, fs, probe, listing, server>>

Next ==
    \E s \in Slots :
        \/ ReceiveRequest(s)
        \/ GitSetWorkingDir(s)
        \/ GitClearWorkingDir(s)
        \/ ProbeDone(s)
        \/ CommandDone(s)
        \/ Retire(s)

Spec == Init /\ [][Next]_vars

\* one call of PathValidation.isWithinDirectory on generated inputs
CheckPath ==
    /\ ~pathCheck.done
    /\ \E t \in GeneratedPaths, b \in BasePaths :
         pathCheck' = [done |-> TRUE, target |-> t, base |-> b,
                       result |-> isWithinDirectory(t, b)]
    /\ UNCHANGED <<allowedBaseDir, globalWorkingDir, reqs, fs, probe, listing, server>>

NextPath == CheckPath

SpecPath == Init /\ [][NextPath]_vars

-----------------------------------------------------------------------------
(* Initialize and clone, step by step *)

InitSlots == {1}

\* the git_init / git_clone handler up to the fs.access of ensureRepoPathExists
ReceiveInit(s) ==
    /\ reqs[s].pc = "idle"
    /\ \E tool \in InitTools : \E a \in ArgsFor(tool) :
         reqs' = [reqs EXCEPT ![s] =
                     InitHandlerEnter(HandlerStart(tool, a, globalWorkingDir, allowedBaseDir))]
    /\ UNCHANGED <<allowedBaseDir, globalWorkingDir, pathCheck, fs, probe, listing, server>>

\* fs.access(repoPath) settles: the directory exists, or mkdir is awaited
AccessDone(s) ==
    /\ reqs[s].pc = "access"
    /\ reqs' = [reqs EXCEPT ![s] =
                   IF access(reqs[s].repoPath)
                   THEN DispatchRepositoryCommand(reqs[s])
                   ELSE [reqs[s] EXCEPT !.pc = "mkdir"]]
    /\ UNCHANGED <<allowedBaseDir, globalWorkingDir, pathCheck, fs, probe, listing, server>>

\* fs.mkdir settles: the directory is created, or the failure reaches the
\* outer catch of initRepo / cloneRepo
MkdirDone(s) ==
    /\ reqs[s].pc = "mkdir"
    /\ \/ /\ fs' = fs \cup MkdirRecursive(reqs[s].repoPath)
          /\ reqs' = [reqs EXCEPT ![s] = DispatchRepositoryCommand(reqs[s])]
       \/ /\ \E error \in FsErrors :
               reqs' = [reqs EXCEPT ![s] = RepositoryFailure(reqs[s], error)]
          /\ UNCHANGED fs
    /\ UNCHANGED <<allowedBaseDir, globalWorkingDir, pathCheck, probe, listing, server>>

\* git init settles
InitDone(s) ==
    /\ reqs[s].pc = "init"
    /\ \/ /\ fs' = fs \cup GitInitEntries(reqs[s].repoPath, reqs[s].bare)
          /\ reqs' = [reqs EXCEPT ![s] =
                         IF reqs[s].bare
                         THEN HandlerOutcome(reqs[s], Returned(createSuccessResult("Initialized")))
                         ELSE [reqs[s] EXCEPT !.pc = "writeFile"]]
       \/ /\ \E error \in CommandErrors :
               reqs' = [reqs EXCEPT ![s] = RepositoryFailure(reqs[s], error)]
          /\ UNCHANGED fs
    /\ UNCHANGED <<allowedBaseDir, globalWorkingDir, pathCheck, probe, listing, server>>

\* fs.writeFile(README.md) settles
WriteReadmeDone(s) ==
    /\ reqs[s].pc = "writeFile"
    /\ \/ /\ fs' = fs \cup {PathJoin(reqs[s].repoPath, README)}
          /\ reqs' = [reqs EXCEPT ![s] =
                         [reqs[s] EXCEPT
                            !.pc = "add",
                            !.cmds = Append(reqs[s].cmds,
                                            [name |-> "add", paths |-> <<README>>, flags |-> {}])]]
       \/ /\ \E error \in FsErrors :
               reqs' = [reqs EXCEPT ![s] =
                           BootstrapFailure(reqs[s], initRepoBootstrapCatch(error))]
          /\ UNCHANGED fs
    /\ UNCHANGED <<allowedBaseDir, globalWorkingDir, pathCheck, probe, listing, server>>

\* git add README.md settles
BootstrapAddDone(s) ==
    /\ reqs[s].pc = "add"
    /\ \/ reqs' = [reqs EXCEPT ![s] =
                      [reqs[s] EXCEPT
                         !.pc = "commit",
                         !.cmds = Append(reqs[s].cmds,
                                         [name |-> "commit", paths |-> <<>>,
                                          flags |-> {"--allow-empty"}])]]
       \/ \E error \in CommandErrors :
            reqs' = [reqs EXCEPT ![s] =
                        BootstrapFailure(reqs[s], initRepoBootstrapCatch(error))]
    /\ UNCHANGED <<allowedBaseDir, globalWorkingDir, pathCheck, fs, probe, listing, server>>

\* git commit settles: initRepo returns its success result either way
BootstrapCommitDone(s) ==
    /\ reqs[s].pc = "commit"
    /\ \/ reqs' = [reqs EXCEPT ![s] =
                      HandlerOutcome(reqs[s], Returned(createSuccessResult("Initialized")))]
       \/ \E error \in CommandErrors :
            reqs' = [reqs EXCEPT ![s] =
                        BootstrapFailure(reqs[s], initRepoBootstrapCatch(error))]
    /\ UNCHANGED <<allowedBaseDir, globalWorkingDir, pathCheck, fs, probe, listing, server>>

\* git clone settles
CloneDone(s) ==
    /\ reqs[s].pc = "clone"
    /\ \/ /\ fs' = fs \cup GitInitEntries(reqs[s].repoPath, FALSE)
          /\ reqs' = [reqs EXCEPT ![s] =
                         HandlerOutcome(reqs[s], Returned(createSuccessResult("Cloned")))]
       \/ /\ \E error \in CommandErrors :
               reqs' = [reqs EXCEPT ![s] = RepositoryFailure(reqs[s], error)]
          /\ UNCHANGED fs
    /\ UNCHANGED <<allowedBaseDir, globalWorkingDir, pathCheck, probe, listing, server>>

NextInit ==
    \E s \in InitSlots :
        \/ ReceiveInit(s)
        \/ AccessDone(s)
        \/ MkdirDone(s)
        \/ InitDone(s)
        \/ WriteReadmeDone(s)
        \/ BootstrapAddDone(s)
        \/ BootstrapCommitDone(s)
        \/ CloneDone(s)
        \/ Retire(s)

SpecInit == Init /\ [][NextInit]_vars

\* tools whose facade operation issues one command, or two in a row
OperationTools ==
    {"git_branch_create", "git_diff_unstaged", "git_commit", "git_push",
     "git_cherry_pick", "git_branch_delete", "git_clean"}

\* the handler of one of these tools runs up to its first await
ReceiveOperation(s) ==
    /\ reqs[s].pc = "idle"
    /\ \E tool \in OperationTools : \E a \in ArgsFor(tool) :
         reqs' = [reqs EXCEPT ![s] =
                     HandlerStart(tool, a, globalWorkingDir, allowedBaseDir)]
    /\ UNCHANGED <<allowedBaseDir, globalWorkingDir, pathCheck, fs, probe, listing, server>>

\* one client: initialize, clone and the operations above, one request at a
\* time
NextOperations ==
    \E s \in InitSlots :
        \/ ReceiveInit(s)
        \/ AccessDone(s)
        \/ MkdirDone(s)
        \/ InitDone(s)
        \/ WriteReadmeDone(s)
        \/ BootstrapAddDone(s)
        \/ BootstrapCommitDone(s)
        \/ CloneDone(s)
        \/ ReceiveOperation(s)
        \/ ProbeDone(s)
        \/ CommandDone(s)
        \/ Retire(s)

SpecOperations == Init /\ [][NextOperations]_vars

\* tools whose facade call is followed to its end: the operations that
\* take no secondary path, so that every call reaches the command layer
CallTools ==
    {"git_cherry_pick", "git_branch_create", "git_commit", "git_push",
     "git_clean", "git_branch_delete"}

\* the handler of one of these tools runs up to its first await
ReceiveCall(s) ==
    /\ reqs[s].pc = "idle"
    /\ \E tool \in CallTools : \E a \in ArgsFor(tool) :
         reqs' = [reqs EXCEPT ![s] =
                     HandlerStart(tool, a, globalWorkingDir, allowedBaseDir)]
    /\ UNCHANGED <<allowedBaseDir, globalWorkingDir, pathCheck, fs, probe, listing, server>>

NextCalls ==
    \E s \in InitSlots :
        \/ ReceiveCall(s)
        \/ GitSetWorkingDir(s)
        \/ GitClearWorkingDir(s)
        \/ ProbeDone(s)
        \/ CommandDone(s)
        \/ Retire(s)

\* tools that change the repository, served by every handler slot
ConcurrentTools == {"git_commit", "git_reset_commit"}

\* the handler of one of these tools runs up to its first await
ReceiveConcurrent(s) ==
    /\ reqs[s].pc = "idle"
    /\ \E tool \in ConcurrentTools : \E a \in ArgsFor(tool) :
         reqs' = [reqs EXCEPT ![s] =
                     HandlerStart(tool, a, globalWorkingDir, allowedBaseDir)]
    /\ UNCHANGED <<allowedBaseDir, globalWorkingDir, pathCheck, fs, probe, listing, server>>

\* two clients at once: each request has its own handler and its own
\* GitService, and the handlers interleave at their awaits
NextConcurrent ==
    \E s \in Slots :
        \/ ReceiveConcurrent(s)
        \/ ProbeDone(s)
        \/ CommandDone(s)
        \/ Retire(s)

SpecConcurrent == Init /\ [][NextConcurrent]_vars

\* repository paths for the comparison of registry values: those of
\* RepoPathInputs, and two relative paths that are not the placeholder, one
\* that path.normalize turns into "." (c/..) and one it leaves alone (./)
RegistryPathInputs ==
    RepoPathInputs \cup {<<"c", "/", ".", ".">>, <<".", "/">>}

RegistryProbeTools == {"git_commit", "git_show"}

\* a handler resolves the path it was given under the registry value of the
\* moment and constructs its service
ReceiveUnderRegistry(s) ==
    /\ reqs[s].pc = "idle"
    /\ \E tool \in RegistryProbeTools : \E p \in RegistryPathInputs :
         reqs' = [reqs EXCEPT ![s] =
                     HandlerStart(tool, [DefaultArgs EXCEPT !.path = p],
                                  globalWorkingDir, allowedBaseDir)]
    /\ UNCHANGED <<allowedBaseDir, globalWorkingDir, pathCheck, fs, probe, listing, server>>

\* the same paths resolved under every registry value a client can
\* install: two handlers hold what the path functions returned under
\* two values of the registry
NextRegistry ==
    \E s \in Slots :
        \/ ReceiveUnderRegistry(s)
        \/ GitSetWorkingDir(s)
        \/ GitClearWorkingDir(s)
        \/ ProbeDone(s)
        \/ CommandDone(s)
        \/ Retire(s)

SpecRegistry == Init /\ [][NextRegistry]_vars

\* every awaited call settles: the promise of the repository probe and of a
\* dispatched command is eventually resolved or rejected
EveryAwaitSettles ==
    \A s \in InitSlots :
        /\ WF_vars(ProbeDone(s))
        /\ WF_vars(CommandDone(s))

SpecCalls == Init /\ [][NextCalls]_vars /\ EveryAwaitSettles

-----------------------------------------------------------------------------
(* One directory listing on generated trees *)

ListFiles ==
    /\ ~listing.done
    /\ \E tree \in Trees, dirPath \in ListDirInputs :
         listing' = [done |-> TRUE, tree |-> tree, dirPath |-> dirPath,
                     files |-> ListedFiles(tree, dirPath, globalWorkingDir)]
    /\ UNCHANGED <<allowedBaseDir, globalWorkingDir, reqs, pathCheck, fs, probe, server>>

NextList == ListFiles

SpecList == Init /\ [][NextList]_vars

-----------------------------------------------------------------------------
(* One repository existence check on generated disks *)

\* disks the check is made on: the entries of FsEntries and, under the plain
\* directory a/c, any of the four markers of a bare repository
ProbeDisks ==
    {FsEntries \cup {<<"/", "a", "/", "c", "/">> \o file : file \in markers} :
        markers \in SUBSET BareMarkers}

\* directories the check is asked about
ProbePathInputs ==
    {DOT, <<"/", "a", "/", "b">>, <<"/", "a", "/", "c">>, <<"/", "a", "/", "c", "/">>,
     <<"/", "a", "/", "n">>, <<"/", "a", "a">>, <<"/", "b">>,
     <<"/", "a", "/", ".", ".", "/", "b">>}

InitProbe ==
    /\ \E e \in BaseDirEnv :
         /\ allowedBaseDir = PathResolve(EMPTY, e)
         /\ server = ServerRunning(e)
    /\ globalWorkingDir = GwdNull
    /\ reqs = [s \in Slots |-> IdleReq]
    /\ pathCheck = PathCheckIdle
    /\ fs \in ProbeDisks
    /\ probe = ProbeIdle
    /\ listing = ListingIdle

\* isGitRepository(dirPath); probed records whether the sandbox check let
\* the call go on to fs.access
CheckRepository ==
    /\ ~probe.done
    /\ \E dirPath \in ProbePathInputs :
         probe' = [done |-> TRUE, dirPath |-> dirPath,
                   probed |-> isWithinDirectory(normalizePath(dirPath, globalWorkingDir),
                                                allowedBaseDir),
                   result |-> isGitRepository(dirPath, globalWorkingDir, allowedBaseDir)]
    /\ UNCHANGED <<allowedBaseDir, globalWorkingDir, reqs, pathCheck, fs, listing, server>>

NextProbe == CheckRepository

SpecProbe == InitProbe /\ [][NextProbe]_vars

-----------------------------------------------------------------------------
(* Startup: main, and the first requests of a starting process *)

\* GIT_MCP_BASE_DIR as the process can be started: unset, empty, an absolute
\* directory, a relative one
StartupEnv == {EnvAbsent, EnvOf(EMPTY), EnvOf(<<"/", "a">>), EnvOf(<<"a">>)}

\* !baseDir
EnvFalsy(e) == ~e.isSet \/ Len(e.value) = 0

\* the Error the GlobalSettings constructor throws
SettingsError ==
    [isError |-> TRUE, code |-> "undefined",
     message |-> "FATAL: GIT_MCP_BASE_DIR environment variable is not set",
     stack |-> "stack-settings", command |-> "undefined", args |-> "undefined",
     stderr |-> "undefined"]

StartupSlots == {1}

\* the process before main ran: GlobalSettings.instance is not constructed
InitStartup ==
    /\ server \in {[env |-> e, phase |-> "starting", instance |-> FALSE] : e \in StartupEnv}
    /\ allowedBaseDir = EMPTY
    /\ globalWorkingDir = GwdNull
    /\ reqs = [s \in Slots |-> IdleReq]
    /\ pathCheck = PathCheckIdle
    /\ fs = FsEntries
    /\ probe = ProbeIdle
    /\ listing = ListingIdle

\* main: new GitMcpServer() and server.connect(transport); the settings are
\* not consulted; a failure of either ends the process
Main ==
    /\ server.phase = "starting"
    /\ \/ server' = [server EXCEPT !.phase = "running"]
       \/ server' = [server EXCEPT !.phase = "exited"]
    /\ UNCHANGED <<allowedBaseDir, globalWorkingDir, reqs, pathCheck, fs, probe, listing>>

\* the handler whose new GitService found the environment value missing:
\* the Error of the GlobalSettings constructor reaches the handler's catch
SettingsRejected(tool, a) ==
    [IdleReq EXCEPT !.pc = "done", !.tool = tool, !.path = a.path,
                    !.normalizedPath = PathNormalize(a.path),
                    !.threwAt = "settings", !.thrown = SettingsError,
                    !.response = CatchResponse(tool, SettingsError)]

\* a repository tool handler of a running server, up to its first await;
\* getGlobalSettings() constructs the singleton on its first call
ReceiveStartup(s) ==
    /\ server.phase = "running"
    /\ reqs[s].pc = "idle"
    /\ \E tool \in FacadeTools : \E a \in ArgsFor(tool) :
         IF ~SchemaAccepts(tool, a) \/ server.instance
         THEN /\ reqs' = [reqs EXCEPT ![s] =
                             HandlerStart(tool, a, globalWorkingDir, allowedBaseDir)]
              /\ UNCHANGED <<allowedBaseDir, server>>
         ELSE IF EnvFalsy(server.env)
         THEN /\ reqs' = [reqs EXCEPT ![s] = SettingsRejected(tool, a)]
              /\ UNCHANGED <<allowedBaseDir, server>>
         ELSE /\ allowedBaseDir' = PathResolve(EMPTY, server.env.value)
              /\ server' = [server EXCEPT !.instance = TRUE]
              /\ reqs' = [reqs EXCEPT ![s] =
                             HandlerStart(tool, a, globalWorkingDir, allowedBaseDir')]
    /\ UNCHANGED <<globalWorkingDir, pathCheck, fs, probe, listing>>

NextStartup ==
    \/ Main
    \/ \E s \in StartupSlots :
          \/ ReceiveStartup(s)
          \/ ProbeDone(s)
          \/ CommandDone(s)
          \/ Retire(s)

SpecStartup == InitStartup /\ [][NextStartup]_vars

-----------------------------------------------------------------------------
(* Reference notions used by the properties *)

\* the non-empty segments of the normalized path
PathSegments(p) ==
    SelectSeq(Split(PathNormalize(p)), LAMBDA g : g # EMPTY)

\* candidate is lexically equal to root or nested under it, segment by segment
NestedUnder(candidate, root) ==
    LET c == PathSegments(candidate)
        r == PathSegments(root)
    IN  /\ IsAbsolute(PathNormalize(candidate)) = IsAbsolute(PathNormalize(root))
        /\ Len(r) <= Len(c)
        /\ SubSeq(c, 1, Len(r)) = r

\* the request reached its handler and named a repository path
NamedRepository(r) ==
    /\ r.pc # "idle"
    /\ r.schemaOk
    /\ r.tool \in FacadeTools \/ (r.tool = "git_set_working_dir" /\ r.validateGitRepo)

\* the facade method of a path-bearing tool was entered with a secondary
\* path that, resolved against the bound root, lies outside that root
EscapingPaths(r) ==
    {i \in 1..Len(r.facadeFiles) :
        ~NestedUnder(PathResolve(r.repoPath, PathNormalize(r.facadeFiles[i])), r.repoPath)}

\* validateRelativePath rejected a secondary path of the request
RejectedPaths(r) ==
    {i \in 1..Len(r.facadeFiles) :
        ~validateRelativePath(r.repoPath, r.facadeFiles[i], "files").ok}

\* the parameter name each path-bearing operation reports in its rejection
ParamNameOf(tool) ==
    CASE tool \in ListTools -> "files"
      [] tool = "git_log" -> "options.file"
      [] tool = "directory-listing" -> "dirPath"
      [] OTHER -> "filePath"

\* the second command of getUnstagedDiff, whose failure is ignored
StatusStep(r) == r.tool = "git_diff_unstaged" /\ Len(r.cmds) = 2

\* a command of the request failed and the facade method has ended
CommandFailed(r) ==
    r.pc = "done" /\ r.cmdError # NoError /\ ~StatusStep(r)

-----------------------------------------------------------------------------
(* Properties *)

\* C1: a request whose normalized repository path is neither the base
\* directory nor nested under it fails at construction with category
\* VALIDATION, and no underlying command is dispatched for it.
C1_OutsideSandboxRejected ==
    \A s \in Slots :
        LET r == reqs[s] IN
        (NamedRepository(r) /\ ~NestedUnder(r.normalizedPath, allowedBaseDir))
            => /\ r.threwAt = "constructor"
               /\ r.thrown.errorCategory = CATEGORY_VALIDATION
               /\ r.cmds = <<>>

\* C2: isWithinDirectory(candidate, root) is true exactly when the
\* normalized candidate equals the normalized root or is nested under it
\* segment by segment; a sibling sharing a string prefix is rejected.
C2_IsWithinIffNested ==
    pathCheck.done =>
        (pathCheck.result <=> NestedUnder(pathCheck.target, pathCheck.base))

\* C3: a path-bearing facade operation entered with a secondary path that
\* escapes the bound repository root throws a VALIDATION error and
\* dispatches no command.
C3_EscapingPathRejected ==
    \A s \in Slots :
        LET r == reqs[s] IN
        (r.tool \in PathTools /\ r.called /\ EscapingPaths(r) # {})
            => /\ r.threwAt = "operation"
               /\ r.thrown.errorCategory = CATEGORY_VALIDATION
               /\ r.cmds = <<>>

\* C4: a request that names the placeholder "." while the registry holds D
\* resolves to D and any handle it constructs is bound to D (construction
\* succeeds whenever D passes the sandbox check); while the registry is
\* null, after a clear included, the request fails with a VALIDATION error
\* and binds nothing.
C4_PlaceholderFollowsRegistry ==
    [][\A s \in Slots :
         (/\ reqs[s].pc = "idle"
          /\ reqs'[s].tool \in FacadeTools
          /\ reqs'[s].schemaOk
          /\ reqs'[s].path = DOT)
         => IF globalWorkingDir.isNull
            THEN /\ ~reqs'[s].constructed
                 /\ reqs'[s].threwAt = "constructor"
                 /\ reqs'[s].thrown.errorCategory = CATEGORY_VALIDATION
            ELSE /\ reqs'[s].normalizedPath = PathNormalize(globalWorkingDir.dir)
                 /\ reqs'[s].constructed => reqs'[s].repoPath = PathNormalize(globalWorkingDir.dir)
                 /\ reqs'[s].constructed
                      <=> isWithinDirectory(globalWorkingDir.dir, allowedBaseDir)
      ]_vars

\* C4 witness: the registry holds /a/bb and a placeholder request is bound to it
C4_Witness ==
    /\ ~globalWorkingDir.isNull
    /\ globalWorkingDir.dir = <<"/", "a", "/", "b", "b">>
    /\ \E s \in Slots :
         /\ reqs[s].tool \in FacadeTools
         /\ reqs[s].path = DOT
         /\ reqs[s].constructed
         /\ reqs[s].repoPath = <<"/", "a", "/", "b", "b">>

\* C5: every OperationResult a facade method returned is exactly one of
\* the two branches: success with data and no error, or failure with an
\* error and no data; and a facade call that ended either returned a
\* result or threw, never both and never neither.
C5_ResultIsOneBranch ==
    \A s \in Slots :
        LET r == reqs[s] IN
        /\ r.result # NoRec =>
             \/ /\ r.result.resultSuccessful
                /\ DOMAIN r.result = {"resultSuccessful", "resultData"}
             \/ /\ ~r.result.resultSuccessful
                /\ DOMAIN r.result = {"resultSuccessful", "resultError"}
        /\ (r.called /\ r.pc = "done") => ((r.result # NoRec) <=> (r.threwAt = "none"))

\* C5 witness: a facade call ended on the failure branch after a command failed
C5_Witness ==
    \E s \in Slots :
        /\ reqs[s].pc = "done"
        /\ reqs[s].cmdError # NoError
        /\ reqs[s].result # NoRec
        /\ ~reqs[s].result.resultSuccessful

\* C6: a failure raised by an underlying command never leaves the facade
\* as an exception; it is classified and returned as the failure branch.
C6_CommandFailureReturned ==
    \A s \in Slots :
        LET r == reqs[s] IN
        /\ (r.pc = "done" /\ r.cmdError # NoError) => r.threwAt = "none"
        /\ CommandFailed(r) =>
             /\ r.result # NoRec
             /\ ~r.result.resultSuccessful
             /\ r.result.resultError.errorCategory \in {CATEGORY_GIT, CATEGORY_UNKNOWN}

\* C6 witness: a path-bearing operation returned a failure for a failed command
C6_Witness ==
    \E s \in Slots :
        /\ reqs[s].tool \in PathTools
        /\ CommandFailed(reqs[s])
        /\ ~reqs[s].result.resultSuccessful

\* C7: a sandbox rejection raised inside a path-bearing operation leaves it
\* as an exception with code, category and severity as raised; it is never
\* classified again and never turned into a failure result.
C7_RejectionPropagates ==
    \A s \in Slots :
        LET r == reqs[s] IN
        (r.tool \in PathTools /\ r.called /\ RejectedPaths(r) # {}
           /\ ~(r.isList /\ Len(r.facadeFiles) = 0))
            => LET first == CHOOSE i \in RejectedPaths(r) :
                               \A j \in RejectedPaths(r) : i <= j
               IN  /\ r.threwAt = "operation"
                   /\ r.thrown = validateRelativePath(r.repoPath, r.facadeFiles[first],
                                                       ParamNameOf(r.tool)).error
                   /\ r.thrown.errorCode = "PATH_TRAVERSAL_ATTEMPT"
                   /\ r.thrown.errorCategory = CATEGORY_VALIDATION
                   /\ r.thrown.errorSeverity = SEVERITY_ERROR
                   /\ r.result = NoRec

\* C7 witness: git_log threw the traversal rejection of its file argument
C7_Witness ==
    \E s \in Slots :
        /\ reqs[s].tool = "git_log"
        /\ reqs[s].threwAt = "operation"
        /\ reqs[s].thrown.errorCode = "PATH_TRAVERSAL_ATTEMPT"

C9_MergeConflictingFlagsRejected ==
    \A s \in Slots :
        LET r == reqs[s] IN
        (r.tool = "git_merge" /\ r.fastForwardOnly /\ r.noFastForward)
            => /\ r.cmds = <<>>
               /\ ~r.called
               /\ r.pc = "done" => r.response.isError

\* C9 witness: the adapter answered such a merge on a repository with its error
C9_Witness ==
    \E s \in Slots :
        /\ reqs[s].tool = "git_merge"
        /\ reqs[s].fastForwardOnly /\ reqs[s].noFastForward
        /\ reqs[s].pc = "done"
        /\ reqs[s].response.text = "Cannot specify both fastForwardOnly and noFastForward"

\* C10: a reset request whose mode is outside hard, soft, mixed is rejected
\* before the reset command is dispatched; a mode inside is dispatched as is.
C10_ResetModeEnumerated ==
    \A s \in Slots :
        LET r == reqs[s] IN
        r.tool = "git_reset_commit" =>
            /\ r.mode \notin ResetModes =>
                 /\ r.cmds = <<>>
                 /\ ~r.called
                 /\ r.response.isError
            /\ \A i \in 1..Len(r.cmds) :
                 /\ r.cmds[i].flags \subseteq ResetModes
                 /\ r.cmds[i].flags = {r.mode}

\* C10 witness: a reset with mode keep was answered with an error
C10_Witness ==
    \E s \in Slots :
        /\ reqs[s].tool = "git_reset_commit"
        /\ reqs[s].mode = "keep"
        /\ reqs[s].pc = "done"
        /\ reqs[s].response.isError

\* the init command of the request was dispatched and did not fail
InitCommandSucceeded(r) ==
    /\ r.tool = "git_init"
    /\ Len(r.cmds) >= 1
    /\ r.cmds[1].name = "init"
    /\ r.pc # "init"
    /\ r.cmdError = NoError

\* C11: initialize on a non-bare target whose directory and repository
\* metadata were created returns a successful OperationResult whether the
\* bootstrap steps succeed or fail; a bootstrap failure is only logged, and
\* the repository markers stay on disk.
C11_BootstrapNonFatal ==
    \A s \in InitSlots :
        LET r == reqs[s] IN
        (InitCommandSucceeded(r) /\ ~r.bare)
            => /\ HasGitMarkers(r.repoPath)
               /\ r.threwAt = "none"
               /\ r.pc = "done" =>
                    /\ r.result # NoRec
                    /\ r.result.resultSuccessful
                    /\ ~r.response.isError
               /\ r.pc # "done" => r.logged = NoError

\* C11 witness: the bootstrap add failed, was logged, and initialize succeeded
C11_Witness ==
    \E s \in InitSlots :
        /\ InitCommandSucceeded(reqs[s]) /\ ~reqs[s].bare
        /\ reqs[s].pc = "done"
        /\ reqs[s].logged = GitFailure
        /\ Len(reqs[s].cmds) = 2
        /\ reqs[s].result.resultSuccessful

\* the directory a listing asked for, by path from the repository root
\* (the root itself is the empty path)
RequestedDir(dirPath) ==
    LET n == PathNormalize(dirPath)
        bare == IF Len(n) > 1 /\ n[Len(n)] = "/" THEN SubSeq(n, 1, Len(n) - 1) ELSE n
    IN  IF bare = DOT THEN EMPTY ELSE bare

\* the directory part of an entry path
ParentOf(e) ==
    LET above == PathPrefixes(e) \ {e} IN
    IF above = {} THEN EMPTY
    ELSE CHOOSE d \in above : \A x \in above : Len(x) <= Len(d)

\* the name of an entry inside its directory
NameOf(e) ==
    IF ParentOf(e) = EMPTY THEN e
    ELSE SubSeq(e, Len(ParentOf(e)) + 2, Len(e))

ImmediateChildren(tree, dir) == {e \in TreeEntries(tree) : ParentOf(e) = dir}

\* C12: a listing of a directory of the tree returns the immediate children
\* of that directory, each by its name or by its path from the root, and
\* nothing else: neither deeper entries nor the directory itself.
C12_ListingImmediateChildren ==
    (/\ listing.done
     /\ \/ RequestedDir(listing.dirPath) = EMPTY
        \/ IsTreeEntry(listing.tree, RequestedDir(listing.dirPath)))
    => LET children == ImmediateChildren(listing.tree, RequestedDir(listing.dirPath))
           listed == {listing.files[i] : i \in 1..Len(listing.files)}
       IN  /\ \A x \in listed : \E e \in children : x = e \/ x = NameOf(e)
           /\ \A e \in children : e \in listed \/ NameOf(e) \in listed

\* C13: isGitRepository returns a boolean; for a path that is neither the
\* base directory nor nested under it the result is false and the disk is
\* not probed; for a path inside, the result is true exactly when .git, or
\* all of HEAD, config, objects and refs, are accessible.
C13_ProbeIsBoolean ==
    probe.done =>
        LET n == normalizePath(probe.dirPath, globalWorkingDir) IN
        /\ probe.result \in BOOLEAN
        /\ ~NestedUnder(n, allowedBaseDir) => (~probe.result /\ ~probe.probed)
        /\ NestedUnder(n, allowedBaseDir) =>
             (probe.result <=>
                 \/ PathJoin(n, DotGit) \in fs
                 \/ \A file \in BareMarkers : PathJoin(n, file) \in fs)

\* C14: stage and unstage dispatch their command only after every member
\* of the list (or the single path) passed validation, the marker "."
\* excepted; when a member resolves outside the repository root no command
\* is dispatched.
C14_EveryMemberValidated ==
    \A s \in Slots :
        LET r == reqs[s] IN
        (r.tool \in ListTools /\ r.called)
            => /\ EscapingPaths(r) # {} => r.cmds = <<>>
               /\ r.cmds # <<>> =>
                    /\ RejectedPaths(r) = {}
                    /\ Len(r.cmds[1].paths) = Len(r.facadeFiles)
                    /\ \A i \in 1..Len(r.facadeFiles) :
                         r.cmds[1].paths[i] =
                             IF r.facadeFiles[i] = DOT THEN DOT
                             ELSE PathNormalize(r.facadeFiles[i])

\* C15: every sandbox rejection is a VALIDATION error whose code tells the
\* out-of-sandbox rejection of the constructor from the traversal rejection
\* of an operation, and whose context holds the offending parameter name,
\* the requested path, the resolved path and the root.
C15_RejectionContext ==
    \A s \in Slots :
        LET r == reqs[s]
            ctx == r.thrown.errorContext
        IN  r.thrown # NoRec =>
            /\ r.thrown.errorCategory = CATEGORY_VALIDATION
            /\ "parameter" \in DOMAIN ctx
            /\ r.threwAt = "constructor" =>
                 /\ r.thrown.errorCode = "PATH_OUTSIDE_BASEDIR"
                 /\ ctx.requestedPath = r.normalizedPath
                 /\ r.normalizedPath # DOT => ctx.resolvedPath = PathNormalize(r.normalizedPath)
                 /\ ctx.allowedBaseDir = allowedBaseDir
            /\ r.threwAt = "operation" =>
                 /\ r.thrown.errorCode = "PATH_TRAVERSAL_ATTEMPT"
                 /\ ctx.parameter = ParamNameOf(r.tool)
                 /\ \E i \in RejectedPaths(r) :
                      /\ ctx.requestedPath = r.facadeFiles[i]
                      /\ ctx.resolvedPath =
                            PathResolve(r.repoPath, PathNormalize(r.facadeFiles[i]))
                 /\ ctx.repoPath = r.repoPath

\* C16: a process whose GIT_MCP_BASE_DIR is unset or empty never gets to
\* serve: it is never running, and no request handler runs in it.
C16_RefusesWithoutBaseDir ==
    EnvFalsy(server.env) =>
        /\ server.phase # "running"
        /\ \A s \in Slots : reqs[s].pc = "idle" /\ reqs[s].tool = "none"

-----------------------------------------------------------------------------
(* C17 *)

\* the handler in slot s calls setGlobalWorkingDir in this step: a
\* git_set_working_dir or git_clear_working_dir request reaches its
\* successful response
WritesRegistry(s) ==
    /\ reqs[s].pc # "done"
    /\ reqs'[s].pc = "done"
    /\ reqs'[s].tool \in RegistryTools
    /\ ~reqs'[s].response.isError

\* the value that handler hands to the registry
WrittenValue(r) ==
    IF r.tool = "git_clear_working_dir" THEN GwdNull ELSE GwdOf(r.normalizedPath)

\* C17: the registry is one slot with last-write-wins semantics: after each
\* step in which a set or clear handler writes, the registry holds exactly
\* the value that handler wrote, whatever it held before and whatever other
\* requests are in flight; a step without a write leaves it unchanged
C17_LastWriteWins ==
    [][/\ \A s \in Slots :
             WritesRegistry(s) => globalWorkingDir' = WrittenValue(reqs'[s])
       /\ (\A s \in Slots : ~WritesRegistry(s)) => UNCHANGED globalWorkingDir]_vars

\* two set requests have both stored a directory, one after validating the
\* repository and one without validation; the registry holds the value of
\* the validated one and nothing of the other
C17_Witness ==
    /\ reqs[1].pc = "done" /\ reqs[1].tool = "git_set_working_dir"
    /\ reqs[1].validateGitRepo /\ ~reqs[1].response.isError
    /\ reqs[2].pc = "done" /\ reqs[2].tool = "git_set_working_dir"
    /\ ~reqs[2].validateGitRepo /\ ~reqs[2].response.isError
    /\ reqs[1].normalizedPath # reqs[2].normalizedPath
    /\ globalWorkingDir = GwdOf(reqs[1].normalizedPath)

-----------------------------------------------------------------------------
(* C18 *)

\* the request ended with a failure of the facade: an exception that left
\* it, or a failed OperationResult
FailureSurfaced(r) ==
    /\ r.pc = "done"
    /\ \/ r.threwAt \in {"constructor", "operation"}
       \/ r.result # NoRec /\ ~r.result.resultSuccessful

\* that failure's ErrorRecord
SurfacedError(r) ==
    IF r.threwAt \in {"constructor", "operation"} THEN r.thrown ELSE r.result.resultError

\* the response carries the message of the error and, in some field beside
\* the error flag, its code or its category
ResponseCarries(response, error) ==
    /\ response.isError
    /\ response.text = error.errorMessage
    /\ \E k \in DOMAIN response \ {"isError", "text"} :
         response[k] \in {error.errorCode, error.errorCategory}

\* C18: every failure surfaced to a caller, a sandbox rejection that reached
\* the adapter's catch block included, carries the failure's message and its
\* code or category
C18_FailureCarriesMessageAndCode ==
    \A s \in Slots :
        FailureSurfaced(reqs[s]) => ResponseCarries(reqs[s].response, SurfacedError(reqs[s]))

-----------------------------------------------------------------------------
(* C19 *)

\* initialize or clone failed because fs.mkdir could not create the target
\* directory
DirectoryNotCreated(r) ==
    /\ r.pc = "done"
    /\ r.tool \in InitTools
    /\ r.cmdError \in FsErrors
    /\ r.result # NoRec /\ ~r.result.resultSuccessful

\* C19: a failure to create the target directory during initialize or clone
\* is reported with category SYSTEM, not GIT and not UNKNOWN
C19_FsFailureIsSystem ==
    \A s \in Slots :
        DirectoryNotCreated(reqs[s]) =>
            reqs[s].result.resultError.errorCategory = CATEGORY_SYSTEM

-----------------------------------------------------------------------------
(* C20 *)

\* the codes of the two sandbox rejections
RejectionCodes == {"PATH_OUTSIDE_BASEDIR", "PATH_TRAVERSAL_ATTEMPT"}

\* the request was rejected by the sandbox: by the constructor, or by
\* validateRelativePath inside an operation
SandboxRejected(r) ==
    r.threwAt \in {"constructor", "operation"}

\* the request failed in the underlying tool: the generic classifier built
\* the record of a failed result
ToolFailed(r) ==
    r.result # NoRec /\ ~r.result.resultSuccessful

\* C20: category and code tell a sandbox rejection from an underlying-tool
\* failure: a record of the generic classifier has category GIT or UNKNOWN,
\* never VALIDATION, and none of the rejection codes; a sandbox rejection has
\* category VALIDATION and one of the rejection codes
C20_RejectionDistinguishable ==
    \A s \in Slots :
        LET r == reqs[s] IN
        /\ ToolFailed(r) =>
             /\ r.result.resultError.errorCategory \in {CATEGORY_GIT, CATEGORY_UNKNOWN}
             /\ r.result.resultError.errorCode \notin RejectionCodes
        /\ SandboxRejected(r) =>
             /\ r.thrown.errorCategory = CATEGORY_VALIDATION
             /\ r.thrown.errorCode \in RejectionCodes
        /\ \A s2 \in Slots :
             (ToolFailed(r) /\ SandboxRejected(reqs[s2])) =>
                 <<r.result.resultError.errorCategory, r.result.resultError.errorCode>>
                     # <<reqs[s2].thrown.errorCategory, reqs[s2].thrown.errorCode>>

\* a tool failure with a code of its own has been classified for one request
\* while another request sits rejected by the sandbox
C20_Witness ==
    /\ ToolFailed(reqs[1])
    /\ reqs[1].result.resultError.errorCategory = CATEGORY_GIT
    /\ SandboxRejected(reqs[2])
    /\ reqs[2].thrown.errorCode = "PATH_OUTSIDE_BASEDIR"

-----------------------------------------------------------------------------
(* C21 *)

\* the positions at which an underlying command of the request is in flight
CommandPcs == {"cmd", "init", "clone", "add", "commit"}

\* the positions of initRepo / cloneRepo, in the order of the text
PcRank(pc) ==
    CASE pc = "idle" -> 0
      [] pc = "access" -> 1
      [] pc = "mkdir" -> 2
      [] pc \in {"init", "clone"} -> 3
      [] pc = "writeFile" -> 4
      [] pc = "add" -> 5
      [] pc = "commit" -> 6
      [] pc = "done" -> 7
      [] OTHER -> 8

\* the commands an operation issues, in order
CommandOrder(tool) ==
    CASE tool = "git_init" -> <<"init", "add", "commit">>
      [] tool = "git_clone" -> <<"clone">>
      [] tool = "git_branch_create" -> <<"branch", "checkout">>
      [] tool = "git_diff_unstaged" -> <<"diff", "status">>
      [] tool = "git_commit" -> <<"commit">>
      [] tool = "git_push" -> <<"push">>
      [] tool = "git_cherry_pick" -> <<"cherry-pick">>
      [] tool = "git_branch_delete" -> <<"branch">>
      [] tool = "git_clean" -> <<"clean">>
      [] OTHER -> <<>>

\* the commands dispatched so far are the first ones of the operation's order
InCommandOrder(r) ==
    /\ Len(r.cmds) <= Len(CommandOrder(r.tool))
    /\ \A i \in 1..Len(r.cmds) : r.cmds[i].name = CommandOrder(r.tool)[i]

\* the request in slot s goes on in this step (it is not a new request)
SameRequest(s) ==
    reqs[s].pc # "idle" /\ reqs'[s].pc # "idle"

\* C21: a facade method issues its commands one after the other: the commands
\* dispatched so far follow the operation's order; while one is in flight
\* every earlier one has succeeded; a step dispatches at most one command, and
\* a second or later one only as the pending step settles; createBranch with
\* checkout reports success only when branch and checkout both succeeded;
\* initRepo goes through directory creation, init and the bootstrap steps in
\* that order
C21_SequentialCommands ==
    /\ [](\A s \in Slots :
             LET r == reqs[s] IN
             /\ InCommandOrder(r)
             /\ r.pc \in CommandPcs => r.cmdError = NoError /\ r.logged = NoError
             /\ (r.tool = "git_branch_create" /\ r.result # NoRec /\ r.result.resultSuccessful)
                  => /\ r.cmdError = NoError
                     /\ Len(r.cmds) = IF r.checkout THEN 2 ELSE 1)
    /\ [][\A s \in Slots :
             SameRequest(s) =>
                 /\ Len(reqs'[s].cmds) \in {Len(reqs[s].cmds), Len(reqs[s].cmds) + 1}
                 /\ (Len(reqs'[s].cmds) > Len(reqs[s].cmds) /\ Len(reqs[s].cmds) >= 1)
                      => reqs[s].pc \in CommandPcs \cup {"writeFile"}
                 /\ reqs[s].tool \in InitTools
                      => PcRank(reqs'[s].pc) > PcRank(reqs[s].pc)]_vars

\* createBranch with checkout has returned its success after two commands
C21_Witness ==
    \E s \in Slots :
        /\ reqs[s].tool = "git_branch_create" /\ reqs[s].checkout
        /\ reqs[s].pc = "done"
        /\ reqs[s].result # NoRec /\ reqs[s].result.resultSuccessful
        /\ Len(reqs[s].cmds) = 2 /\ reqs[s].cmds[2].name = "checkout"

-----------------------------------------------------------------------------
(* C22 *)

\* a command or bootstrap step of the request in slot s fails in this step
FailsNow(s) ==
    \/ reqs[s].cmdError = NoError /\ reqs'[s].cmdError # NoError
    \/ reqs[s].logged = NoError /\ reqs'[s].logged # NoError

\* no command occurs twice among those the call dispatched
DispatchedOnce(r) ==
    \A i, j \in 1..Len(r.cmds) : r.cmds[i] = r.cmds[j] => i = j

\* C22: nothing is retried: a facade call dispatches each of its commands at
\* most once, and the step in which one of them fails dispatches nothing and
\* ends the call
C22_NoRetry ==
    /\ [](\A s \in Slots : DispatchedOnce(reqs[s]))
    /\ [][\A s \in Slots :
             (SameRequest(s) /\ FailsNow(s)) =>
                 /\ reqs'[s].cmds = reqs[s].cmds
                 /\ reqs'[s].pc = "done"]_vars

\* a push failed after its one command and the failure was returned
C22_Witness ==
    \E s \in Slots :
        /\ reqs[s].tool = "git_push" /\ reqs[s].pc = "done"
        /\ reqs[s].cmdError = GitFailure
        /\ Len(reqs[s].cmds) = 1
        /\ reqs[s].result # NoRec /\ ~reqs[s].result.resultSuccessful

-----------------------------------------------------------------------------
(* C23 *)

\* the three ways a facade call may end
EndedInSuccess(r) == r.result # NoRec /\ r.result.resultSuccessful
EndedInFailure(r) == r.result # NoRec /\ ~r.result.resultSuccessful
EndedInRejection(r) ==
    /\ r.threwAt = "operation"
    /\ "errorCode" \in DOMAIN r.thrown
    /\ r.thrown.errorCode \in RejectionCodes
    /\ r.thrown.errorCategory = CATEGORY_VALIDATION

\* the call ended, in exactly one of them
EndedInOneOutcome(r) ==
    /\ r.pc = "done"
    /\ Cardinality({k \in {"success", "failure", "rejection"} :
                      \/ k = "success" /\ EndedInSuccess(r)
                      \/ k = "failure" /\ EndedInFailure(r)
                      \/ k = "rejection" /\ EndedInRejection(r)}) = 1

-----------------------------------------------------------------------------
(* C24 *)

\* the repository probe of the request is about to return true
ProbePasses(r) ==
    r.pc = "probe" /\ r.probeAllowed /\ HasGitMarkers(r.repoPath)

\* C24: the facade enforces no mutual exclusion: when the probe of a commit
\* or reset request returns true, its command is dispatched in that very
\* step, whatever the other request is doing on the same repository, and a
\* request is received and bound while the other one has its command in
\* flight
C24_NoMutualExclusion ==
    [][\A s \in Slots :
          /\ (ProbePasses(reqs[s]) /\ reqs'[s] # reqs[s])
               => /\ reqs'[s].pc = "cmd"
                  /\ Len(reqs'[s].cmds) = 1
                  /\ reqs'[s].response = NoResponse
          /\ (reqs[s].pc = "idle" /\ reqs'[s].pc # "idle"
              /\ reqs'[s].schemaOk /\ reqs'[s].threwAt = "none")
               => reqs'[s].pc = "probe" /\ reqs'[s].constructed]_vars

\* a commit and a reset bound to the same repository have their commands in
\* flight at the same time
C24_Witness ==
    /\ reqs[1].pc = "cmd" /\ reqs[1].tool = "git_commit"
    /\ reqs[2].pc = "cmd" /\ reqs[2].tool = "git_reset_commit"
    /\ reqs[1].repoPath = reqs[2].repoPath
    /\ reqs[1].cmds[1].name = "commit" /\ reqs[2].cmds[1].name = "reset"

-----------------------------------------------------------------------------
(* C25 *)

\* operations that need the path of a real file
FilePathTools == {"file-blame", "file-at-ref"}

\* the request names the empty string as the file
EmptyFilePath(r) ==
    r.tool \in FilePathTools /\ r.files = <<EMPTY>>

\* C25: path validation fails closed: a blame or file-at-reference call whose
\* file path is the empty string ends in a rejection and dispatches no
\* command
C25_EmptyPathRejected ==
    \A s \in Slots :
        (EmptyFilePath(reqs[s]) /\ reqs[s].called) =>
            /\ reqs[s].cmds = <<>>
            /\ reqs[s].threwAt = "operation"

-----------------------------------------------------------------------------
(* C26 *)

\* C26: the repository path a handle is bound to is fixed at construction: a
\* request that goes on keeps its handle and its bound path, whatever is
\* stored in or cleared from the registry meanwhile
C26_BoundPathFixed ==
    [][\A s \in Slots :
          (SameRequest(s) /\ reqs[s].constructed) =>
              /\ reqs'[s].constructed
              /\ reqs'[s].repoPath = reqs[s].repoPath]_vars

\* a request made with the placeholder has its command in flight on the
\* directory it resolved, while the registry holds something else by now
C26_Witness ==
    \E s \in Slots :
        /\ reqs[s].path = DOT /\ reqs[s].constructed
        /\ reqs[s].pc = "cmd"
        /\ globalWorkingDir # GwdOf(reqs[s].repoPath)

-----------------------------------------------------------------------------
(* C27 *)

\* the request named its repository with the placeholder
FromPlaceholder(r) ==
    NamedRepository(r) /\ r.path = DOT

\* C27: whatever the registry was given, a handle constructed from the
\* placeholder is bound to a path within the base directory, or its
\* construction throws a validation error
C27_PlaceholderStaysInSandbox ==
    \A s \in Slots :
        FromPlaceholder(reqs[s]) =>
            \/ /\ reqs[s].constructed
               /\ NestedUnder(reqs[s].repoPath, allowedBaseDir)
            \/ /\ ~reqs[s].constructed
               /\ reqs[s].threwAt = "constructor"
               /\ reqs[s].thrown.errorCategory = CATEGORY_VALIDATION

-----------------------------------------------------------------------------
(* C28 *)

\* the validating git_set_working_dir request in slot s takes a step that is
\* not its successful completion: it is received, or it is answered with an
\* error
ValidatingSetStep(s) ==
    /\ reqs'[s] # reqs[s]
    /\ reqs'[s].tool = "git_set_working_dir"
    /\ reqs'[s].validateGitRepo
    /\ ~(reqs'[s].pc = "done" /\ ~reqs'[s].response.isError)

\* C28: a git_set_working_dir request with validateGitRepo true changes the
\* registry only by completing successfully: when it is rejected by the
\* sandbox or finds no repository the registry is as it was before
C28_FailedSetLeavesRegistry ==
    [][\A s \in Slots : ValidatingSetStep(s) => UNCHANGED globalWorkingDir]_vars

\* with a directory stored, a validating request for another directory was
\* answered "not a repository" and the stored directory is still there
C28_Witness ==
    \E s \in Slots :
        /\ reqs[s].tool = "git_set_working_dir" /\ reqs[s].validateGitRepo
        /\ reqs[s].pc = "done" /\ reqs[s].response.isError
        /\ reqs[s].constructed
        /\ ~globalWorkingDir.isNull
        /\ globalWorkingDir.dir # reqs[s].normalizedPath

-----------------------------------------------------------------------------
(* C29 *)

\* the handler of the request ran normalizePath and the constructor
PathResolved(r) ==
    /\ r.pc # "idle"
    /\ r.schemaOk
    /\ r.tool \in RegistryProbeTools

\* what the path functions made of the request: the normalized path, the
\* allow/deny decision of the constructor, and the bound path
SandboxDecision(r) ==
    <<r.normalizedPath, r.constructed, r.repoPath>>

\* C29: two requests that name the same repository path, other than the
\* placeholder ".", get the same normalized path and the same allow/deny
\* decision whatever the registry held when each was received
C29_RegistryOnlyForPlaceholder ==
    \A s1, s2 \in Slots :
        /\ PathResolved(reqs[s1])
        /\ PathResolved(reqs[s2])
        /\ reqs[s1].path = reqs[s2].path
        /\ reqs[s1].path # DOT
        => SandboxDecision(reqs[s1]) = SandboxDecision(reqs[s2])

-----------------------------------------------------------------------------
(* C30 *)

\* the request is served by an adapter that probes for the repository
ProbingAdapter(r) ==
    r.tool \in OperationTools

\* the adapter invoked its facade operation, or a command of the operation
\* was dispatched
FacadeEntered(r) ==
    r.called \/ r.cmds # <<>>

\* C30: an adapter other than git_init, git_clone, git_set_working_dir and
\* git_clear_working_dir has not entered its facade operation while the
\* probe is pending, enters it only in the step in which the probe returns
\* true, and when the probe returns false answers with an error response
\* without a command dispatched
C30_ProbeBeforeFacade ==
    /\ [](\A s \in InitSlots :
            ProbingAdapter(reqs[s]) /\ reqs[s].pc = "probe"
                => ~FacadeEntered(reqs[s]))
    /\ [][\A s \in InitSlots :
            /\ (ProbingAdapter(reqs'[s]) /\ ~FacadeEntered(reqs[s])
                /\ FacadeEntered(reqs'[s]))
                 => ProbePasses(reqs[s])
            /\ (ProbingAdapter(reqs[s]) /\ reqs[s].pc = "probe"
                /\ ~ProbePasses(reqs[s]) /\ reqs'[s] # reqs[s])
                 => /\ reqs'[s].pc = "done"
                    /\ reqs'[s].response.isError
                    /\ ~FacadeEntered(reqs'[s])]_vars

\* a push into a directory of the sandbox that holds no repository was
\* answered with an error and dispatched nothing
C30_Witness ==
    \E s \in InitSlots :
        /\ reqs[s].tool = "git_push"
        /\ reqs[s].pc = "done"
        /\ reqs[s].constructed
        /\ reqs[s].response = [isError |-> TRUE, text |-> "Not a Git repository"]
        /\ reqs[s].cmds = <<>>
        /\ ~reqs[s].called

====
